---- MODULE Spec2Model ----
(***************************************************************************)
(* State-machine model of the soundealer AudioPlayer: the live Web Audio   *)
(* node graph (initEqualizer), the region-effect lifecycle                 *)
(* (activateRealTimePreview / freezeCurrentEffect / closeEffectPanel) and  *)
(* the buffer reload protocol (reloadWithBuffer and the WaveSurfer         *)
(* "decode"/"ready" handlers).                                             *)
(*                                                                         *)
(* Audio nodes are pairs <<kind, n>>.  The graph is the set `edges` of     *)
(* pairs <<from, to>>: AudioNode.connect adds an edge (connecting the same *)
(* pair twice is a no-op in the Web Audio API), AudioNode.disconnect()     *)
(* removes every outgoing edge of the node.  Gains are in hundredths       *)
(* (0.8 is 80).  Audio buffers are identities (positive integers).         *)
(* Asynchronous invocations (a pending offline render, a pending           *)
(* wavesurfer.load) are the entries of `tasks`; every handler runs to its  *)
(* next await in one step, as the single-threaded event loop does.         *)
(***************************************************************************)
EXTENDS Integers, Sequences, FiniteSets, Bags, TLC

\* ------------------------------------------------------------------------
\* Bounds of the model
\* ------------------------------------------------------------------------
NumRegions == 1
MaxNodes == 4
MaxBufs == 3
MaxTasks == 1
MaxRaf == 1
MaxFrames == 4

\* ------------------------------------------------------------------------
\* Program constants
\* ------------------------------------------------------------------------
eqBands == <<32, 64, 125, 250, 500, 1000, 2000, 4000, 8000, 16000>>
MasterDefault == 80
StartVol == 80

\* A normalized knob value v in [0,1] is the integer v * KnobUnit.  The effect
\* parameters are integers too: amount in 1/AmountUnit, time (seconds) and
\* normFreq in 1/TimeUnit, feedback in 1/FeedbackUnit, bits as it is.
KnobUnit == 1800
AmountUnit == 9
TimeUnit == 180000
FeedbackUnit == 2000

\* inputs the model draws for the volume knob / master fader / EQ gesture
KnobValues == {50}
FaderValues == {150}
DrawBands == {1}
DrawValues == {12}

\* inputs the model draws for the parameter knobs: both ends of the travel
\* and a position between two bit depths
ParamKnobValues == {0, 1199, KnobUnit}

EffectTypes == {"distortion", "delay", "bitcrush"}
NoType == "none"
NULL == <<"null", 0>>
NoBuf == 0
NoRegion == 0
Undefined == -1

RegionIds == 1..NumRegions

\* this.effectParams = {} (constructor, 55)
NoParams == [volume |-> Undefined, amount |-> Undefined, time |-> Undefined,
             feedback |-> Undefined, bits |-> Undefined, normFreq |-> Undefined]

VARIABLES
  regions,            \* user regions present on the waveform
  activeRegion,       \* this.activeRegion (NoRegion is null)
  currentEffectType,  \* this.currentEffectType (NoType is null)
  effectParams,       \* this.effectParams (Undefined: property not set)
  previewEffectNode,  \* this.previewEffectNode
  delayNode,          \* this.delayNode
  feedbackNode,       \* this.feedbackNode
  previewGainNode,    \* this.previewGainNode
  previewGain,        \* previewGainNode.gain.value
  curveAmount,        \* amount of previewEffectNode.curve (distortion)
  delayTime,          \* delayNode.delayTime, the value it is set or ramped to
  feedbackGain,       \* feedbackNode.gain.value
  masterGainNode,     \* this.masterGainNode
  masterGain,         \* masterGainNode.gain.value
  analyser,           \* this.analyser
  mediaNode,          \* this.mediaNode
  eqInputNode,        \* this.eqInputNode
  filters,            \* this.filters: sequence of [node, type, frequency, gain]
  sliders,            \* the .slider-eq inputs' values
  edges,              \* connections of the live audio graph
  eqInitialized,      \* this.eqInitialized
  originalBuffer,     \* this.originalBuffer, the committed buffer
  playerBuffer,       \* wavesurfer.getDecodedData(), the audio loaded in the player
  everCommitted,      \* every buffer originalBuffer has referred to
  tasks,              \* pending asynchronous invocations
  rafPending,         \* requestAnimationFrame callbacks queued by the decode handler
  knobListeners,      \* times setupKnobListeners has bound the knobs
  nextNode,           \* number of effect nodes created so far
  nextBuf,            \* number of buffers created so far
  dsp,                \* the samples of one freeze and one export (see below)
  localCache,         \* bankService.localCache: per bank, its list of samples
  cloud,              \* Firestore's soundBanks documents and the files in Storage
  calls,              \* pending invocations of the bank service and its callers
  Modal,              \* the ModalSystem singleton: overlay, resolvePromise
  promises,           \* the promises Modal.show has returned, in order
  saveBtn             \* #save-bank-btn: innerHTML and style.pointerEvents

previewVars == <<activeRegion, currentEffectType, previewEffectNode, delayNode,
                 feedbackNode, previewGainNode, previewGain, curveAmount,
                 delayTime, feedbackGain>>
chainVars == <<masterGainNode, masterGain, analyser, mediaNode, eqInputNode,
               filters, edges, eqInitialized>>
bufVars == <<originalBuffer, playerBuffer, everCommitted>>
serviceVars == <<localCache, cloud, calls, Modal, promises, saveBtn>>
vars == <<regions, effectParams, sliders, previewVars, chainVars, bufVars,
          tasks, rafPending, knobListeners, nextNode, nextBuf, dsp, serviceVars>>

\* ------------------------------------------------------------------------
\* Banks, samples and dialogs (BankService.js, Modal.js)
\* ------------------------------------------------------------------------
\* bank and sample names the user types, and the number of uploads followed
BankNames == {"kit"}
SampleNames == {"kick", "snare"}
MaxUploads == 2
\* the number of dialogs followed
MaxShows == 4

\* localCache[name] undefined, and a document that does not exist
Absent == [present |-> FALSE, samples |-> <<>>]
NoBanks == [b \in BankNames |-> Absent]
NoPromise == 0

\* the service after its constructor (part_004 11-14) and initApp's loadAll
\* of an empty store (part_001 158-162), the modal after its constructor
\* (part_001 8-18), the save button as createPageDefault builds it
InitService ==
  /\ localCache = NoBanks
  /\ cloud = [docs |-> NoBanks, files |-> {}, clock |-> 0]
  /\ calls = {}
  /\ Modal = [overlay |-> FALSE, active |-> FALSE, type |-> "none",
              resolvePromise |-> NoPromise, frames |-> 0]
  /\ promises = <<>>
  /\ saveBtn = [innerHTML |-> "save", pointerEvents |-> ""]

\* ------------------------------------------------------------------------
\* Web Audio graph primitives
\* ------------------------------------------------------------------------
Connect(E, a, b) == E \cup {<<a, b>>}

Disconnect(E, a) == {e \in E : e[1] # a}

DisconnectIf(E, a) == IF a # NULL THEN Disconnect(E, a) ELSE E

OutEdges(E, a) == {e[2] : e \in {x \in E : x[1] = a}}

MediaNode == <<"media", 1>>
EqInput == <<"eqInput", 1>>
MasterNode == <<"master", 1>>
AnalyserNode == <<"analyser", 1>>
Destination == <<"destination", 1>>
FilterNode(i) == <<"filter", i>>
FxNode(n) == <<"fx", n>>

FilterType(band) ==
  IF band <= 32 THEN "lowshelf" ELSE IF band >= 16000 THEN "highshelf" ELSE "peaking"

\* ------------------------------------------------------------------------
\* The chain and the preview as values, so that handlers compose
\* ------------------------------------------------------------------------
Chain == [masterGainNode |-> masterGainNode, masterGain |-> masterGain,
          analyser |-> analyser, mediaNode |-> mediaNode,
          eqInputNode |-> eqInputNode, filters |-> filters, edges |-> edges,
          eqInitialized |-> eqInitialized]

Preview == [activeRegion |-> activeRegion, currentEffectType |-> currentEffectType,
            previewEffectNode |-> previewEffectNode, delayNode |-> delayNode,
            feedbackNode |-> feedbackNode, previewGainNode |-> previewGainNode,
            previewGain |-> previewGain, curveAmount |-> curveAmount,
            delayTime |-> delayTime, feedbackGain |-> feedbackGain]

\* closeEffectPanel forgetting to drop the preview gain reference
IdlePreviewKeepsGainNode ==
  [activeRegion |-> NoRegion, currentEffectType |-> NoType,
   previewEffectNode |-> NULL, delayNode |-> NULL, feedbackNode |-> NULL,
   previewGainNode |-> previewGainNode, previewGain |-> previewGain,
   curveAmount |-> Undefined, delayTime |-> Undefined, feedbackGain |-> Undefined]

IdlePreview == [activeRegion |-> NoRegion, currentEffectType |-> NoType,
                previewEffectNode |-> NULL, delayNode |-> NULL,
                feedbackNode |-> NULL, previewGainNode |-> NULL,
                previewGain |-> Undefined, curveAmount |-> Undefined,
                delayTime |-> Undefined, feedbackGain |-> Undefined]

SetChain(c) ==
  /\ masterGainNode' = c.masterGainNode
  /\ masterGain' = c.masterGain
  /\ analyser' = c.analyser
  /\ mediaNode' = c.mediaNode
  /\ eqInputNode' = c.eqInputNode
  /\ filters' = c.filters
  /\ edges' = c.edges
  /\ eqInitialized' = c.eqInitialized

SetPreview(p) ==
  /\ activeRegion' = p.activeRegion
  /\ currentEffectType' = p.currentEffectType
  /\ previewEffectNode' = p.previewEffectNode
  /\ delayNode' = p.delayNode
  /\ feedbackNode' = p.feedbackNode
  /\ previewGainNode' = p.previewGainNode
  /\ previewGain' = p.previewGain
  /\ curveAmount' = p.curveAmount
  /\ delayTime' = p.delayTime
  /\ feedbackGain' = p.feedbackGain

\* ------------------------------------------------------------------------
\* initEqualizer (AudioPlayer.js 410-498)
\* ------------------------------------------------------------------------
\* filter bank creation with connectSliders: each filter takes its slider's value
NewFilters(sl) ==
  [i \in 1..Len(eqBands) |->
     [node |-> FilterNode(i), type |-> FilterType(eqBands[i]),
      frequency |-> eqBands[i], gain |-> sl[i]]]

RECURSIVE DisconnectFilters(_, _, _)
DisconnectFilters(E, fs, i) ==
  IF i > Len(fs) THEN E ELSE DisconnectFilters(Disconnect(E, fs[i].node), fs, i + 1)

\* this.filters.forEach(filter => { currentNode.connect(filter); currentNode = filter })
\* followed by currentNode.connect(masterGainNode)
RECURSIVE SerializeFilters(_, _, _, _, _)
SerializeFilters(E, currentNode, fs, i, master) ==
  IF i > Len(fs) THEN Connect(E, currentNode, master)
  ELSE SerializeFilters(Connect(E, currentNode, fs[i].node), fs[i].node, fs, i + 1, master)

\* lines 446-454: disconnect everything the player still holds a reference to
DisconnectAll(E, c, p) ==
  LET e1 == Disconnect(E, c.mediaNode)
      e2 == Disconnect(e1, c.eqInputNode)
      e3 == DisconnectIf(e2, p.previewEffectNode)
      e4 == DisconnectIf(e3, p.delayNode)
      e5 == DisconnectIf(e4, p.feedbackNode)
      e6 == DisconnectIf(e5, p.previewGainNode)
      e7 == DisconnectFilters(e6, c.filters, 1)
  IN Disconnect(e7, c.masterGainNode)

\* the serial branch also keeping the dry edge source -> eqInput
RouteSourceKeepsDry(E, c, p) ==
  IF p.currentEffectType \in {"distortion", "bitcrush"} /\ p.previewEffectNode # NULL
  THEN Connect(Connect(Connect(E, c.mediaNode, c.eqInputNode),
                       c.mediaNode, p.previewEffectNode),
               p.previewEffectNode, c.eqInputNode)
  ELSE IF p.currentEffectType = "delay" /\ p.delayNode # NULL
  THEN LET d1 == Connect(E, c.mediaNode, c.eqInputNode)
           d2 == Connect(d1, c.mediaNode, p.delayNode)
           d3 == Connect(d2, p.delayNode, p.feedbackNode)
           d4 == Connect(d3, p.feedbackNode, p.delayNode)
       IN Connect(d4, p.delayNode, c.eqInputNode)
  ELSE Connect(E, c.mediaNode, c.eqInputNode)

\* lines 456-473: source routing by effect type
RouteSource(E, c, p) ==
  IF p.currentEffectType \in {"distortion", "bitcrush"} /\ p.previewEffectNode # NULL
  THEN Connect(Connect(E, c.mediaNode, p.previewEffectNode),
               p.previewEffectNode, c.eqInputNode)
  ELSE IF p.currentEffectType = "delay" /\ p.delayNode # NULL
  THEN LET d1 == Connect(E, c.mediaNode, c.eqInputNode)
           d2 == Connect(d1, c.mediaNode, p.delayNode)
           d3 == Connect(d2, p.delayNode, p.feedbackNode)
           d4 == Connect(d3, p.feedbackNode, p.delayNode)
       IN Connect(d4, p.delayNode, c.eqInputNode)
  ELSE Connect(E, c.mediaNode, c.eqInputNode)

\* lines 475-482: preview gain stage
UsesPreviewGain(p) == p.currentEffectType # NoType /\ p.previewGainNode # NULL

InsertPreviewGain(E, c, p) ==
  IF UsesPreviewGain(p)
  THEN Connect(Disconnect(E, c.eqInputNode), c.eqInputNode, p.previewGainNode)
  ELSE E

\* chainStart left at eqInputNode when the preview gain is inserted
ChainStartAlwaysEqInput(c, p) == c.eqInputNode

ChainStart(c, p) == IF UsesPreviewGain(p) THEN p.previewGainNode ELSE c.eqInputNode

\* the master gain reset to its default on every rebuild
initEqualizerResetsMaster(c, p, sl) ==
  LET c1 == [c EXCEPT !.masterGainNode = MasterNode,
                      !.masterGain = MasterDefault,
                      !.analyser = AnalyserNode,
                      !.mediaNode = MediaNode,
                      !.eqInputNode = EqInput,
                      !.filters = IF Len(c.filters) = 0 THEN NewFilters(sl) ELSE c.filters]
      g0 == Connect(c.edges, c1.masterGainNode, c1.analyser)
      g1 == DisconnectAll(g0, c1, p)
      g2 == RouteSource(g1, c1, p)
      g3 == InsertPreviewGain(g2, c1, p)
      g4 == SerializeFilters(g3, ChainStart(c1, p), c1.filters, 1, c1.masterGainNode)
      g5 == Connect(g4, c1.masterGainNode, Destination)
      g6 == Connect(g5, c1.masterGainNode, c1.analyser)
  IN [c1 EXCEPT !.edges = g6, !.eqInitialized = TRUE]

initEqualizer(c, p, sl) ==
  LET created == c.masterGainNode # NULL
      c1 == [c EXCEPT !.masterGainNode = MasterNode,
                      !.masterGain = IF created THEN c.masterGain ELSE MasterDefault,
                      !.analyser = AnalyserNode,
                      !.mediaNode = MediaNode,
                      !.eqInputNode = EqInput,
                      !.filters = IF Len(c.filters) = 0 THEN NewFilters(sl) ELSE c.filters]
      g0 == Connect(c.edges, c1.masterGainNode, c1.analyser)
      g1 == DisconnectAll(g0, c1, p)
      g2 == RouteSource(g1, c1, p)
      g3 == InsertPreviewGain(g2, c1, p)
      g4 == SerializeFilters(g3, ChainStart(c1, p), c1.filters, 1, c1.masterGainNode)
      g5 == Connect(g4, c1.masterGainNode, Destination)
      g6 == Connect(g5, c1.masterGainNode, c1.analyser)
  IN [c1 EXCEPT !.edges = g6, !.eqInitialized = TRUE]

\* ------------------------------------------------------------------------
\* closeEffectPanel (AudioPlayer.js 801-829): drop the preview references,
\* then rebuild.  The result is the chain; the preview becomes IdlePreview.
\* ------------------------------------------------------------------------
\* the cancel emptying this.filters, so that the rebuild makes ten new nodes
closeEffectPanelNewBank(c, sl) ==
  LET bank == [i \in 1..Len(c.filters) |->
                 [c.filters[i] EXCEPT !.node = FilterNode(Len(eqBands) + i)]]
  IN initEqualizer([c EXCEPT !.eqInitialized = FALSE, !.filters = bank],
                   IdlePreview, sl)

closeEffectPanel(c, sl) ==
  initEqualizer([c EXCEPT !.eqInitialized = FALSE], IdlePreview, sl)

\* ------------------------------------------------------------------------
\* Asynchronous invocations
\* ------------------------------------------------------------------------
\* tasks is the bag of pending invocations; each is a record of what the
\* invocation closed over and of the await it is suspended at
PendingTasks == BagToSet(tasks)

FileLoad == [kind |-> "file", pc |-> "load", region |-> NoRegion, type |-> NoType,
             src |-> NoBuf, buf |-> NoBuf]

\* a call suspends at its first await; at most cap invocations are pending
Suspend(tk, cap) ==
  /\ BagCardinality(tasks) < cap
  /\ tasks' = tasks (+) SetToBag({tk})

\* a pending invocation runs to its end
Settle(tk) == tasks' = tasks (-) SetToBag({tk})

\* a pending invocation runs to its next await
Resume(tk, tk2) == tasks' = (tasks (-) SetToBag({tk})) (+) SetToBag({tk2})

Commit(b) == originalBuffer' = b /\ everCommitted' = everCommitted \cup {b}

\* ------------------------------------------------------------------------
\* Init: the player as the constructor leaves it (AudioPlayer.js 21-85)
\* ------------------------------------------------------------------------
InitPlayer ==
  /\ regions = {}
  /\ activeRegion = NoRegion
  /\ currentEffectType = NoType
  /\ effectParams = NoParams
  /\ previewEffectNode = NULL
  /\ delayNode = NULL
  /\ feedbackNode = NULL
  /\ previewGainNode = NULL
  /\ previewGain = Undefined
  /\ curveAmount = Undefined
  /\ delayTime = Undefined
  /\ feedbackGain = Undefined
  /\ masterGainNode = NULL
  /\ masterGain = Undefined
  /\ analyser = NULL
  /\ mediaNode = NULL
  /\ eqInputNode = NULL
  /\ filters = <<>>
  /\ sliders = [i \in 1..Len(eqBands) |-> 0]
  /\ edges = {}
  /\ eqInitialized = FALSE
  /\ originalBuffer = NoBuf
  /\ playerBuffer = NoBuf
  /\ everCommitted = {}
  /\ tasks = EmptyBag
  /\ rafPending = 0
  /\ knobListeners = 0
  /\ nextNode = 0
  /\ nextBuf = 0

\* the specifications of the handlers follow buffers by identity: their
\* samples are not looked at
NoDsp == [pc |-> "none"]

Init == InitPlayer /\ InitService /\ dsp = NoDsp

\* ------------------------------------------------------------------------
\* Loading
\* ------------------------------------------------------------------------
\* drop of a file or bank sample on the waveform: wavesurfer.load(url)
LoadFile(cap) ==
  /\ Suspend(FileLoad, cap)
  /\ UNCHANGED <<regions, effectParams, sliders, previewVars, chainVars, bufVars,
                 rafPending, knobListeners, nextNode, nextBuf>>
  /\ UNCHANGED <<dsp, serviceVars>>

\* wavesurfer.load resolves.  In one turn of the event loop: the "decode"
\* handler (143-151) commits the decoded data and queues two animation-frame
\* callbacks, the "ready" handler (153-154) rebuilds the chain, and for a
\* reload the continuation of reloadWithBuffer (248-249) rebuilds it again.
LoadDone(tk) ==
  /\ tk \in PendingTasks
  /\ tk.pc = "load"
  /\ rafPending < MaxRaf
  /\ nextBuf < MaxBufs
  /\ LET decoded == nextBuf + 1
         ready == initEqualizer(Chain, Preview, sliders)
         cont == IF tk.kind = "file" THEN ready
                 ELSE initEqualizer([ready EXCEPT !.eqInitialized = FALSE], Preview, sliders)
     IN /\ nextBuf' = decoded
        /\ playerBuffer' = decoded
        /\ Commit(decoded)
        /\ SetChain(cont)
  /\ rafPending' = rafPending + 1
  /\ Settle(tk)
  /\ UNCHANGED <<regions, effectParams, sliders, previewVars, knobListeners, nextNode>>
  /\ UNCHANGED <<dsp, serviceVars>>

\* wavesurfer.load rejects (fetch or decode error): loadAudioFile logs it
\* (230-232), applyDirectEffect swallows it (534), freezeCurrentEffect logs
\* it (793-795).  Nothing is restored.
LoadFail(tk) ==
  /\ tk \in PendingTasks
  /\ tk.pc = "load"
  /\ Settle(tk)
  /\ UNCHANGED <<regions, effectParams, sliders, previewVars, chainVars, bufVars,
                 rafPending, knobListeners, nextNode, nextBuf>>
  /\ UNCHANGED <<dsp, serviceVars>>

\* the animation-frame callbacks queued by the decode handler (148-149):
\* initEqualizer, then setupKnobListeners, which binds the knobs once more
AnimationFrame ==
  /\ rafPending > 0
  /\ rafPending' = rafPending - 1
  /\ knobListeners' = knobListeners + 1
  /\ SetChain(initEqualizer(Chain, Preview, sliders))
  /\ UNCHANGED <<regions, effectParams, sliders, previewVars, bufVars, tasks,
                 nextNode, nextBuf>>
  /\ UNCHANGED <<dsp, serviceVars>>

\* ------------------------------------------------------------------------
\* Regions
\* ------------------------------------------------------------------------
\* drag selection is enabled by the "ready" handler (162)
RegionCreated(r) ==
  /\ playerBuffer # NoBuf
  /\ r \notin regions
  /\ regions' = regions \cup {r}
  /\ UNCHANGED <<effectParams, sliders, previewVars, chainVars, bufVars, tasks,
                 rafPending, knobListeners, nextNode, nextBuf>>
  /\ UNCHANGED <<dsp, serviceVars>>

\* the x2 and 1/2 buttons (1222-1250) while looping on a region:
\* clearRegions emits region-removed for every region (203-208 closes the
\* panel for the active one), then addRegion puts the resized region r
ResizeLoop(r) ==
  /\ regions # {}
  /\ regions' = {r}
  /\ IF activeRegion \in regions
     THEN SetPreview(IdlePreview) /\ SetChain(closeEffectPanel(Chain, sliders))
     ELSE UNCHANGED <<previewVars, chainVars>>
  /\ UNCHANGED <<effectParams, sliders, bufVars, tasks, rafPending, knobListeners,
                 nextNode, nextBuf>>
  /\ UNCHANGED <<dsp, serviceVars>>

\* a cancel that also drops the committed buffer
RegionRemovedDropsBuffer(r) ==
  /\ r \in regions
  /\ regions' = regions \ {r}
  /\ IF activeRegion = r
     THEN /\ SetPreview(IdlePreview) /\ SetChain(closeEffectPanel(Chain, sliders))
          /\ originalBuffer' = NoBuf
          /\ UNCHANGED <<playerBuffer, everCommitted>>
     ELSE UNCHANGED <<previewVars, chainVars, bufVars>>
  /\ UNCHANGED <<effectParams, sliders, tasks, rafPending, knobListeners,
                 nextNode, nextBuf>>
  /\ UNCHANGED <<dsp, serviceVars>>

\* the region's delete button (304-308) fires "region-removed" (203-208),
\* the only caller of closeEffectPanel for a cancel
RegionRemoved(r) ==
  /\ r \in regions
  /\ regions' = regions \ {r}
  /\ IF activeRegion = r
     THEN SetPreview(IdlePreview) /\ SetChain(closeEffectPanel(Chain, sliders))
     ELSE UNCHANGED <<previewVars, chainVars>>
  /\ UNCHANGED <<effectParams, sliders, bufVars, tasks, rafPending, knobListeners,
                 nextNode, nextBuf>>
  /\ UNCHANGED <<dsp, serviceVars>>

\* ------------------------------------------------------------------------
\* activateRealTimePreview (540-653)
\* ------------------------------------------------------------------------
NodesFor(type) == IF type = "delay" THEN 3 ELSE 2

\* the values lines 568, 577-578 and 588-589 assign
DefaultAmount == 50 * AmountUnit
DefaultTime == TimeUnit \div 4
DefaultFeedback == (4 * FeedbackUnit) \div 10
DefaultBits == 8
DefaultNormFreq == TimeUnit \div 10

\* the nodes and values lines 543-601 create and assign
\* an activation whose delay preview has no feedback node
NewPreviewNoFeedback(r, type, n) ==
  [activeRegion |-> r, currentEffectType |-> type,
   previewEffectNode |-> IF type = "delay" THEN NULL ELSE FxNode(n + 2),
   delayNode |-> IF type = "delay" THEN FxNode(n + 2) ELSE NULL,
   feedbackNode |-> NULL,
   previewGainNode |-> FxNode(n + 1),
   previewGain |-> StartVol,
   curveAmount |-> IF type = "distortion" THEN DefaultAmount ELSE Undefined,
   delayTime |-> IF type = "delay" THEN DefaultTime ELSE Undefined,
   feedbackGain |-> IF type = "delay" THEN DefaultFeedback ELSE Undefined]

NewPreview(r, type, n) ==
  [activeRegion |-> r, currentEffectType |-> type,
   previewEffectNode |-> IF type = "delay" THEN NULL ELSE FxNode(n + 2),
   delayNode |-> IF type = "delay" THEN FxNode(n + 2) ELSE NULL,
   feedbackNode |-> IF type = "delay" THEN FxNode(n + 3) ELSE NULL,
   previewGainNode |-> FxNode(n + 1),
   previewGain |-> StartVol,
   curveAmount |-> IF type = "distortion" THEN DefaultAmount ELSE Undefined,
   delayTime |-> IF type = "delay" THEN DefaultTime ELSE Undefined,
   feedbackGain |-> IF type = "delay" THEN DefaultFeedback ELSE Undefined]

NewParams(ep, type) ==
  LET vol == [ep EXCEPT !.volume = StartVol]
  IN IF type = "distortion" THEN [vol EXCEPT !.amount = DefaultAmount]
     ELSE IF type = "delay"
     THEN [vol EXCEPT !.time = DefaultTime, !.feedback = DefaultFeedback]
     ELSE [vol EXCEPT !.bits = DefaultBits, !.normFreq = DefaultNormFreq]

\* def1 and def2 (563, 569, 579, 590) as normalized knob values
Def1(type) ==
  IF type = "distortion" THEN (50 * KnobUnit) \div 400
  ELSE IF type = "delay" THEN KnobUnit \div 4
  ELSE (8 * KnobUnit) \div 16

Def2(type) ==
  IF type = "delay" THEN (4 * KnobUnit) \div 9
  ELSE IF type = "bitcrush" THEN KnobUnit \div 10
  ELSE KnobUnit \div 2

\* ------------------------------------------------------------------------
\* updateEffectParam (916-958): k is the normalized value times KnobUnit.
\* The result is the pair of effectParams and the preview with its nodes.
\* ------------------------------------------------------------------------
AmountOf(k) == (400 * k * AmountUnit) \div KnobUnit
TimeOf(k) == TimeUnit \div 100 + 99 * k * (TimeUnit \div (100 * KnobUnit))
FeedbackOf(k) == (9 * k * FeedbackUnit) \div (10 * KnobUnit)
\* the bit depth mapped over sixteen steps instead of fifteen
BitsOfSixteenSteps(k) == 1 + (16 * k) \div KnobUnit

BitsOf(k) == 1 + (15 * k) \div KnobUnit

updateEffectParam(ep, p, knobIndex, k) ==
  LET type == p.currentEffectType
  IN IF type = "distortion" /\ knobIndex = 1
     THEN [ep |-> [ep EXCEPT !.amount = AmountOf(k)],
           p |-> IF p.previewEffectNode # NULL
                 THEN [p EXCEPT !.curveAmount = AmountOf(k)] ELSE p]
     ELSE IF type = "delay" /\ knobIndex = 1
     THEN [ep |-> [ep EXCEPT !.time = TimeOf(k)],
           p |-> IF p.delayNode # NULL THEN [p EXCEPT !.delayTime = TimeOf(k)] ELSE p]
     ELSE IF type = "delay" /\ knobIndex = 2
     THEN [ep |-> [ep EXCEPT !.feedback = FeedbackOf(k)],
           p |-> IF p.feedbackNode # NULL
                 THEN [p EXCEPT !.feedbackGain = FeedbackOf(k)] ELSE p]
     ELSE IF type = "bitcrush" /\ knobIndex = 1
     THEN [ep |-> [ep EXCEPT !.bits = BitsOf(k)], p |-> p]
     ELSE IF type = "bitcrush" /\ knobIndex = 2
     THEN [ep |-> [ep EXCEPT !.normFreq = TimeOf(k)], p |-> p]
     ELSE [ep |-> ep, p |-> p]

activateRealTimePreview(r, type) ==
  /\ r \in regions
  /\ type \in EffectTypes
  /\ nextNode + NodesFor(type) <= MaxNodes
  /\ LET closed == closeEffectPanel(Chain, sliders)
         u1 == updateEffectParam(NewParams(effectParams, type),
                                 NewPreview(r, type, nextNode), 1, Def1(type))
         u2 == IF type # "distortion"
               THEN updateEffectParam(u1.ep, u1.p, 2, Def2(type)) ELSE u1
     IN /\ SetPreview(u2.p)
        /\ effectParams' = u2.ep
        /\ SetChain(initEqualizer([closed EXCEPT !.eqInitialized = FALSE], u2.p, sliders))
  /\ nextNode' = nextNode + NodesFor(type)
  /\ UNCHANGED <<regions, sliders, bufVars, tasks, rafPending, knobListeners, nextBuf>>
  /\ UNCHANGED <<dsp, serviceVars>>

\* ------------------------------------------------------------------------
\* freezeCurrentEffect (763-796)
\* ------------------------------------------------------------------------
\* the freeze closing the panel before the render is awaited
FreezeStartClosesPanel(cap) ==
  /\ activeRegion # NoRegion
  /\ Suspend([kind |-> "freeze", pc |-> "render", region |-> activeRegion,
              type |-> currentEffectType, src |-> originalBuffer, buf |-> NoBuf], cap)
  /\ SetPreview(IdlePreview)
  /\ SetChain(closeEffectPanel(Chain, sliders))
  /\ UNCHANGED <<regions, effectParams, sliders, bufVars, rafPending, knobListeners,
                 nextNode, nextBuf>>
  /\ UNCHANGED <<dsp, serviceVars>>

\* one invocation, by the region's APPLY button (638-642) or by one of the
\* freeze button's listeners (836-839), up to the first await: processRange
\* starts the offline render
FreezeStart(cap) ==
  /\ activeRegion # NoRegion
  /\ Suspend([kind |-> "freeze", pc |-> "render", region |-> activeRegion,
              type |-> currentEffectType, src |-> originalBuffer, buf |-> NoBuf], cap)
  /\ UNCHANGED <<regions, effectParams, sliders, previewVars, chainVars, bufVars,
                 rafPending, knobListeners, nextNode, nextBuf>>
  /\ UNCHANGED <<dsp, serviceVars>>

\* the render delivers newBuffer.  The gain loop reads this.activeRegion.start
\* (779): with activeRegion null that throws, and the catch (793) ends the
\* freeze.  Otherwise: closeEffectPanel (791), then reloadWithBuffer up to its
\* await (241-247), which already sets originalBuffer.
FreezeRenderDone(tk) ==
  /\ tk \in PendingTasks
  /\ tk.kind = "freeze" /\ tk.pc = "render"
  /\ IF activeRegion = NoRegion
     THEN /\ Settle(tk)
          /\ UNCHANGED <<previewVars, chainVars, bufVars, nextBuf>>
     ELSE /\ nextBuf < MaxBufs
          /\ nextBuf' = nextBuf + 1
          /\ SetPreview(IdlePreview)
          /\ SetChain(closeEffectPanel(Chain, sliders))
          /\ Commit(nextBuf + 1)
          /\ playerBuffer' = playerBuffer
          /\ Resume(tk, [tk EXCEPT !.pc = "load", !.buf = nextBuf + 1])
  /\ UNCHANGED <<regions, effectParams, sliders, rafPending, knobListeners, nextNode>>
  /\ UNCHANGED <<dsp, serviceVars>>

\* the offline render rejects: the catch (793) logs it
FreezeRenderFail(tk) ==
  /\ tk \in PendingTasks
  /\ tk.kind = "freeze" /\ tk.pc = "render"
  /\ Settle(tk)
  /\ UNCHANGED <<regions, effectParams, sliders, previewVars, chainVars, bufVars,
                 rafPending, knobListeners, nextNode, nextBuf>>
  /\ UNCHANGED <<dsp, serviceVars>>

\* ------------------------------------------------------------------------
\* applyDirectEffect (522-535): 'reverse' dropped on a region.  reverseRange
\* is synchronous, so the reload starts in the same turn.
\* ------------------------------------------------------------------------
\* the reverse closing the effect panel first, as an activation does
applyDirectEffectClosesPanel(r, cap) ==
  /\ r \in regions
  /\ originalBuffer # NoBuf
  /\ nextBuf < MaxBufs
  /\ nextBuf' = nextBuf + 1
  /\ Commit(nextBuf + 1)
  /\ playerBuffer' = playerBuffer
  /\ Suspend([kind |-> "reverse", pc |-> "load", region |-> r, type |-> NoType,
              src |-> originalBuffer, buf |-> nextBuf + 1], cap)
  /\ SetPreview(IdlePreview)
  /\ SetChain(closeEffectPanel(Chain, sliders))
  /\ UNCHANGED <<regions, effectParams, sliders, rafPending, knobListeners, nextNode>>
  /\ UNCHANGED <<dsp, serviceVars>>

applyDirectEffect(r, cap) ==
  /\ r \in regions
  /\ originalBuffer # NoBuf
  /\ nextBuf < MaxBufs
  /\ nextBuf' = nextBuf + 1
  /\ Commit(nextBuf + 1)
  /\ playerBuffer' = playerBuffer
  /\ Suspend([kind |-> "reverse", pc |-> "load", region |-> r, type |-> NoType,
              src |-> originalBuffer, buf |-> nextBuf + 1], cap)
  /\ UNCHANGED <<regions, effectParams, sliders, previewVars, chainVars,
                 rafPending, knobListeners, nextNode>>
  /\ UNCHANGED <<dsp, serviceVars>>

\* ------------------------------------------------------------------------
\* Gains
\* ------------------------------------------------------------------------
\* the volume knob writing the master gain whether or not a preview is active
VolKnobAlwaysMaster(v) ==
  /\ knobListeners > 0
  /\ masterGain' = IF masterGainNode # NULL THEN v ELSE masterGain
  /\ IF currentEffectType # NoType
     THEN /\ previewGain' = IF previewGainNode # NULL THEN v ELSE previewGain
          /\ effectParams' = [effectParams EXCEPT !.volume = v]
     ELSE UNCHANGED <<previewGain, effectParams>>
  /\ UNCHANGED <<regions, sliders, activeRegion, currentEffectType, previewEffectNode,
                 delayNode, feedbackNode, previewGainNode, curveAmount, delayTime,
                 feedbackGain, masterGainNode, analyser,
                 mediaNode, eqInputNode, filters, edges, eqInitialized, bufVars,
                 tasks, rafPending, knobListeners, nextNode, nextBuf>>
  /\ UNCHANGED <<dsp, serviceVars>>

\* the shared volume knob (886-897), bound by setupKnobListeners; every
\* bound listener applies the same value
VolKnob(v) ==
  /\ knobListeners > 0
  /\ IF currentEffectType # NoType
     THEN /\ previewGain' = IF previewGainNode # NULL THEN v ELSE previewGain
          /\ effectParams' = [effectParams EXCEPT !.volume = v]
          /\ UNCHANGED masterGain
     ELSE /\ masterGain' = IF masterGainNode # NULL THEN v ELSE masterGain
          /\ UNCHANGED <<previewGain, effectParams>>
  /\ UNCHANGED <<regions, sliders, activeRegion, currentEffectType, previewEffectNode,
                 delayNode, feedbackNode, previewGainNode, curveAmount, delayTime,
                 feedbackGain, masterGainNode, analyser,
                 mediaNode, eqInputNode, filters, edges, eqInitialized, bufVars,
                 tasks, rafPending, knobListeners, nextNode, nextBuf>>
  /\ UNCHANGED <<dsp, serviceVars>>

\* the parameter knobs p1 and p2 (876-884), bound by setupKnobListeners:
\* the drag handler clamps the value to [0,1] (853)
ParamKnob(knobIndex, k) ==
  /\ knobListeners > 0
  /\ IF currentEffectType = NoType
     THEN UNCHANGED <<effectParams, previewVars>>
     ELSE LET u == updateEffectParam(effectParams, Preview, knobIndex, k)
          IN effectParams' = u.ep /\ SetPreview(u.p)
  /\ UNCHANGED <<regions, sliders, chainVars, bufVars, tasks, rafPending,
                 knobListeners, nextNode, nextBuf>>
  /\ UNCHANGED <<dsp, serviceVars>>

\* the master fader (1348-1361)
MasterFader(v) ==
  /\ masterGain' = IF masterGainNode # NULL THEN v ELSE masterGain
  /\ UNCHANGED <<regions, effectParams, sliders, previewVars, masterGainNode,
                 analyser, mediaNode, eqInputNode, filters, edges, eqInitialized,
                 bufVars, tasks, rafPending, knobListeners, nextNode, nextBuf>>
  /\ UNCHANGED <<dsp, serviceVars>>

\* the EQ draw gesture (1529-1551)
EqDraw(i, v) ==
  /\ sliders' = [sliders EXCEPT ![i] = v]
  /\ filters' = IF Len(filters) >= i THEN [filters EXCEPT ![i].gain = v] ELSE filters
  /\ UNCHANGED <<regions, effectParams, previewVars, masterGainNode, masterGain,
                 analyser, mediaNode, eqInputNode, edges, eqInitialized, bufVars,
                 tasks, rafPending, knobListeners, nextNode, nextBuf>>
  /\ UNCHANGED <<dsp, serviceVars>>

\* an "input" event on the EQ slider of band i, whose value the element keeps
\* within its min and max (Ui.js 388-389): oninput (508-510) is bound by
\* connectSliders, that is, once the filters exist
SliderInput(i, v) ==
  /\ sliders' = [sliders EXCEPT ![i] = v]
  /\ filters' = IF Len(filters) >= i THEN [filters EXCEPT ![i].gain = v] ELSE filters
  /\ UNCHANGED <<regions, effectParams, previewVars, masterGainNode, masterGain,
                 analyser, mediaNode, eqInputNode, edges, eqInitialized, bufVars,
                 tasks, rafPending, knobListeners, nextNode, nextBuf>>
  /\ UNCHANGED <<dsp, serviceVars>>

\* the slider's "dblclick" listener (Ui.js 395-398): value 0, then an "input"
\* event for oninput
SliderReset(i) ==
  /\ sliders' = [sliders EXCEPT ![i] = 0]
  /\ filters' = IF Len(filters) >= i THEN [filters EXCEPT ![i].gain = 0] ELSE filters
  /\ UNCHANGED <<regions, effectParams, previewVars, masterGainNode, masterGain,
                 analyser, mediaNode, eqInputNode, edges, eqInitialized, bufVars,
                 tasks, rafPending, knobListeners, nextNode, nextBuf>>
  /\ UNCHANGED <<dsp, serviceVars>>

\* ------------------------------------------------------------------------
\* trimAudio (1074-1112) by buffer identity, for handles that cut something:
\* sliceBuffer makes the new buffer and reloadWithBuffer commits it (244) and
\* suspends at wavesurfer.load (247)
\* ------------------------------------------------------------------------
trimAudio(cap) ==
  /\ originalBuffer # NoBuf
  /\ nextBuf < MaxBufs
  /\ nextBuf' = nextBuf + 1
  /\ Commit(nextBuf + 1)
  /\ playerBuffer' = playerBuffer
  /\ Suspend([kind |-> "trim", pc |-> "load", region |-> NoRegion, type |-> NoType,
              src |-> originalBuffer, buf |-> nextBuf + 1], cap)
  /\ UNCHANGED <<regions, effectParams, sliders, previewVars, chainVars,
                 rafPending, knobListeners, nextNode>>
  /\ UNCHANGED <<dsp, serviceVars>>

\* the reload of a trim setting every EQ gain back to 0 dB
TrimLoadDoneFlattensEq(tk) ==
  /\ tk \in PendingTasks
  /\ tk.kind = "trim" /\ tk.pc = "load"
  /\ rafPending < MaxRaf
  /\ nextBuf < MaxBufs
  /\ LET Flat(c) == [c EXCEPT !.filters = [i \in 1..Len(c.filters) |->
                                             [c.filters[i] EXCEPT !.gain = 0]]]
         decoded == nextBuf + 1
         ready == initEqualizer(Chain, Preview, sliders)
         cont == initEqualizer([ready EXCEPT !.eqInitialized = FALSE], Preview, sliders)
     IN /\ nextBuf' = decoded
        /\ playerBuffer' = decoded
        /\ Commit(decoded)
        /\ IF activeRegion # NoRegion
           THEN SetPreview(IdlePreview) /\ SetChain(Flat(closeEffectPanel(cont, sliders)))
           ELSE UNCHANGED previewVars /\ SetChain(Flat(cont))
  /\ regions' = {}
  /\ rafPending' = rafPending + 1
  /\ Settle(tk)
  /\ UNCHANGED <<effectParams, sliders, knobListeners, nextNode>>
  /\ UNCHANGED <<dsp, serviceVars>>

\* the load of a trim resolves: decode and ready handlers and the rest of
\* reloadWithBuffer as in LoadDone, then regions.clearRegions() (1109), which
\* removes every region; "region-removed" (203-208) closes the panel when the
\* active region is among them
TrimLoadDone(tk) ==
  /\ tk \in PendingTasks
  /\ tk.kind = "trim" /\ tk.pc = "load"
  /\ rafPending < MaxRaf
  /\ nextBuf < MaxBufs
  /\ LET decoded == nextBuf + 1
         ready == initEqualizer(Chain, Preview, sliders)
         cont == initEqualizer([ready EXCEPT !.eqInitialized = FALSE], Preview, sliders)
     IN /\ nextBuf' = decoded
        /\ playerBuffer' = decoded
        /\ Commit(decoded)
        /\ IF activeRegion # NoRegion
           THEN SetPreview(IdlePreview) /\ SetChain(closeEffectPanel(cont, sliders))
           ELSE UNCHANGED previewVars /\ SetChain(cont)
  /\ regions' = {}
  /\ rafPending' = rafPending + 1
  /\ Settle(tk)
  /\ UNCHANGED <<effectParams, sliders, knobListeners, nextNode>>
  /\ UNCHANGED <<dsp, serviceVars>>

\* ------------------------------------------------------------------------
\* Samples (AudioUtils.js).  A sample is an integer in 1/SampleUnit of full
\* scale, a channel a sequence of samples, a buffer a sequence of channels.
\* Frame f of the code is index f + 1 here.  Buffers run at FrameRate frames
\* per second and region bounds are in 1/TimeRes seconds, so that
\* Math.floor(time * sampleRate) rounds as it does in the code.
\* ------------------------------------------------------------------------
SampleUnit == 32768
FrameRate == 2
TimeRes == 4

Abs(x) == IF x < 0 THEN -x ELSE x
Min(a, b) == IF a < b THEN a ELSE b
Max(a, b) == IF a > b THEN a ELSE b

\* Math.floor(time * sampleRate)
Frame(t) == (t * FrameRate) \div TimeRes

\* a product sample * gain rounded to the nearest sample value (gain in hundredths)
ScaleSample(x, gain) == (2 * x * gain + 100) \div 200

\* floor(a * m / d) for 0 <= a <= d and m = 181 * 181 + m3, by parts that
\* stay within 32 bits
MulDiv(a, m3, d) ==
  LET q1 == (a * 181) \div d
      r1 == (a * 181) % d
      q2 == (r1 * 181) \div d
      r2 == (r1 * 181) % d
      q3 == (a * m3) \div d
      r3 == (a * m3) % d
  IN q1 * 181 + q2 + q3 + (r2 + r3) \div d

\* a conversion that scales both signs by 0x8000
PcmSymmetric(n, unit) ==
  LET sample == Max(-unit, Min(unit, n))
  IN IF sample < 0 THEN -MulDiv(-sample, 7, unit) ELSE MulDiv(sample, 7, unit)

\* bufferToWave 59-66: clip to [-1, 1], scale by 0x8000 or 0x7FFF, store in
\* an Int16Array (truncation toward zero).  The sample is n / unit.
Pcm(n, unit) ==
  LET sample == Max(-unit, Min(unit, n))
  IN IF sample < 0 THEN -MulDiv(-sample, 7, unit) ELSE MulDiv(sample, 6, unit)

\* bufferToWave (26-71), called with len = abuffer.length (241, 1430): the
\* size of the blob, the fields of the 44-byte header (40-52) and the 16-bit
\* PCM data, frames interleaved by channel
bufferToWave(abuffer, unit) ==
  LET numOfChan == Len(abuffer)
      length == Len(abuffer[1])
      lengthInBytes == length * numOfChan * 2
  IN [numOfChan |-> numOfChan, length |-> length,
      size |-> 44 + lengthInBytes,
      riffSize |-> 36 + lengthInBytes, format |-> 1,
      sampleRate |-> FrameRate, byteRate |-> FrameRate * 2 * numOfChan,
      blockAlign |-> numOfChan * 2, bitsPerSample |-> 16,
      dataSize |-> lengthInBytes,
      data |-> [o \in 1..(length * numOfChan) |->
                  Pcm(abuffer[((o - 1) % numOfChan) + 1][((o - 1) \div numOfChan) + 1], unit)]]

\* decodeAudioData of such a file: every 16-bit value v is the sample v / 0x8000
DecodeWav(blob) ==
  [ch \in 1..blob.numOfChan |->
     [i \in 1..blob.length |-> blob.data[(i - 1) * blob.numOfChan + ch]]]

\* makeDistortionCurve (106-116) at sample x for amount k (in 1/AmountUnit),
\* with 22/7 for Math.PI: (3 + k) x 20 deg / (PI + k |x|).  The WaveShaper is
\* taken to apply the curve sample by sample.
DistortionCurve(x, amount) ==
  LET k == IF amount = Undefined THEN 50 * AmountUnit ELSE amount
      mag == ((27 + k) * Abs(x) * 22) \div (1782 + (63 * k * Abs(x)) \div SampleUnit)
  IN IF x < 0 THEN -mag ELSE mag

\* a quantizer that rounds down instead of to the nearest level
QuantizeDown(x, bits) ==
  IF bits >= 15 THEN x
  ELSE LET q == SampleUnit \div (2 ^ bits) IN (x \div q) * q

\* applyMathBitcrush 137: Math.round(sample * stepScale) * step
Quantize(x, bits) ==
  IF bits >= 15 THEN x
  ELSE LET q == SampleUnit \div (2 ^ bits) IN ((2 * x + q) \div (2 * q)) * q

\* applyMathBitcrush (126-147): sample and hold every stepSize frames
applyMathBitcrush(clip, bits, normFreq) ==
  LET stepSize == TimeUnit \div normFreq
  IN [i \in 1..Len(clip) |-> Quantize(clip[i - ((i - 1) % stepSize)], bits)]

\* the wet signal of the delay loop (224-234) for a delay of d frames
RECURSIVE Wet(_, _, _, _)
Wet(clip, i, d, feedback) ==
  IF i <= d THEN 0
  ELSE clip[i - d] + (Wet(clip, i - d, d, feedback) * feedback) \div FeedbackUnit

\* the delay graph (223-235) rendered over the clip: dry plus wet, the tail
\* cut at the clip's length.  The delay is rounded down to whole frames and
\* is at least one frame.
RenderDelay(clip, time, feedback) ==
  LET d == Max(1, (time * FrameRate) \div TimeUnit)
  IN [i \in 1..Len(clip) |-> clip[i] + Wet(clip, i, d, feedback)]

\* params.x || fallback: 0 and undefined both give the fallback
OrElse(x, fallback) == IF x = Undefined \/ x = 0 THEN fallback ELSE x

\* renderOfflineEffect 216-247 on one channel of the clip
ProcessClip(clip, effectType, params) ==
  IF effectType = "distortion"
  THEN [i \in 1..Len(clip) |-> DistortionCurve(clip[i], params.amount)]
  ELSE IF effectType = "delay"
  THEN RenderDelay(clip, OrElse(params.time, (3 * TimeUnit) \div 10),
                   OrElse(params.feedback, FeedbackUnit \div 2))
  ELSE applyMathBitcrush(clip, OrElse(params.bits, 8),
                         OrElse(params.normFreq, TimeUnit \div 2))

\* getChannelData(c).slice(startFrame, endFrame) copied into the clip buffer
\* of lengthFrame frames (206-209)
ExtractClip(channel, startFrame, endFrame) ==
  [i \in 1..(endFrame - startFrame) |->
     IF startFrame + i <= Len(channel) THEN channel[startFrame + i] ELSE 0]

\* the processed clip written one frame behind its place
MergeClipOneFrameLate(channel, processedClip, startFrame) ==
  [i \in 1..Len(channel) |->
     IF startFrame + 1 < i /\ i <= startFrame + 1 + Len(processedClip)
     THEN processedClip[i - startFrame - 1] ELSE channel[i]]

\* data.set(original); data.set(processedClip, startFrame) (250-256)
MergeClip(channel, processedClip, startFrame) ==
  [i \in 1..Len(channel) |->
     IF startFrame < i /\ i <= startFrame + Len(processedClip)
     THEN processedClip[i - startFrame] ELSE channel[i]]

\* a render that lets an empty range through to the offline context, whose
\* constructor rejects a length of zero
renderOfflineEffectNoEmptyCheck(buffer, regionStart, regionEnd, effectType, params) ==
  LET startFrame == Frame(regionStart)
      endFrame == Frame(regionEnd)
      lengthFrame == endFrame - startFrame
  IN IF lengthFrame < 0 THEN [raised |-> FALSE, same |-> TRUE, buffer |-> buffer]
     ELSE IF lengthFrame = 0 \/ startFrame + lengthFrame > Len(buffer[1])
     THEN [raised |-> TRUE, same |-> FALSE, buffer |-> <<>>]
     ELSE [raised |-> FALSE, same |-> FALSE,
           buffer |-> [c \in 1..Len(buffer) |->
                         MergeClip(buffer[c],
                                   ProcessClip(ExtractClip(buffer[c], startFrame, endFrame),
                                               effectType, params),
                                   startFrame)]]

\* renderOfflineEffect (190-259).  TypedArray.set throws a RangeError when
\* the clip does not fit behind startFrame: raised is then TRUE.  same says
\* that the source buffer itself is returned (199).
renderOfflineEffect(buffer, regionStart, regionEnd, effectType, params) ==
  LET startFrame == Frame(regionStart)
      endFrame == Frame(regionEnd)
      lengthFrame == endFrame - startFrame
  IN IF lengthFrame <= 0 THEN [raised |-> FALSE, same |-> TRUE, buffer |-> buffer]
     ELSE IF startFrame + lengthFrame > Len(buffer[1])
     THEN [raised |-> TRUE, same |-> FALSE, buffer |-> <<>>]
     ELSE [raised |-> FALSE, same |-> FALSE,
           buffer |-> [c \in 1..Len(buffer) |->
                         MergeClip(buffer[c],
                                   ProcessClip(ExtractClip(buffer[c], startFrame, endFrame),
                                               effectType, params),
                                   startFrame)]]

\* a volume loop that runs over the whole buffer
ApplyVolumeEverywhere(newBuffer, start, end, vol) ==
  [c \in 1..Len(newBuffer) |->
     [j \in 1..Len(newBuffer[c]) |-> ScaleSample(newBuffer[c][j], vol)]]

\* freezeCurrentEffect 777-789: the preview volume applied to the region's frames
ApplyVolume(newBuffer, start, end, vol) ==
  LET startSample == Frame(start)
      endSample == Frame(end)
  IN [c \in 1..Len(newBuffer) |->
        [j \in 1..Len(newBuffer[c]) |->
           IF startSample < j /\ j <= endSample
           THEN ScaleSample(newBuffer[c][j], vol) ELSE newBuffer[c][j]]]

\* ratios of the buffer's length, in 1/RatioUnit: a trim handle's
\* style.left is a percentage, and trimAudio divides it by 100 (1082-1083)
RatioUnit == 10000

\* Math.floor(ratio * buffer.length)
RatioFrame(ratio, length) == (ratio * length) \div RatioUnit

\* a slice that starts one frame late
sliceBufferOneFrameLate(buffer, startRatio, endRatio) ==
  LET startFrame == RatioFrame(startRatio, Len(buffer[1]))
      endFrame == RatioFrame(endRatio, Len(buffer[1]))
      frameCount == endFrame - startFrame
  IN IF frameCount <= 0 THEN [null |-> TRUE, buffer |-> <<>>]
     ELSE [null |-> FALSE,
           buffer |-> [c \in 1..Len(buffer) |->
                         [i \in 1..frameCount |->
                            IF startFrame + 1 + i <= Len(buffer[c])
                            THEN buffer[c][startFrame + 1 + i] ELSE 0]]]

\* sliceBuffer (81-95): null, or a new buffer of frameCount frames holding
\* slice(startFrame, endFrame) of every channel
sliceBuffer(buffer, startRatio, endRatio) ==
  LET startFrame == RatioFrame(startRatio, Len(buffer[1]))
      endFrame == RatioFrame(endRatio, Len(buffer[1]))
      frameCount == endFrame - startFrame
  IN IF frameCount <= 0 THEN [null |-> TRUE, buffer |-> <<>>]
     ELSE [null |-> FALSE,
           buffer |-> [c \in 1..Len(buffer) |->
                         [i \in 1..frameCount |->
                            IF startFrame + i <= Len(buffer[c])
                            THEN buffer[c][startFrame + i] ELSE 0]]]

\* a reversal that shifts the segment round by one frame instead
reverseRangeRotates(buffer, startTime, endTime) ==
  LET startFrame == Min(Frame(startTime), Len(buffer[1]))
      endFrame == Min(Frame(endTime), Len(buffer[1]))
  IN [c \in 1..Len(buffer) |->
        [i \in 1..Len(buffer[c]) |->
           IF endFrame > startFrame /\ startFrame < i /\ i <= endFrame
           THEN buffer[c][IF i = endFrame THEN startFrame + 1 ELSE i + 1]
           ELSE buffer[c][i]]]

\* reverseRange (161-178): a new buffer, a copy of the source in which the
\* frames of subarray(startFrame, endFrame) are in reverse order; subarray
\* limits both ends to the length
reverseRange(buffer, startTime, endTime) ==
  LET startFrame == Min(Frame(startTime), Len(buffer[1]))
      endFrame == Min(Frame(endTime), Len(buffer[1]))
  IN [c \in 1..Len(buffer) |->
        [i \in 1..Len(buffer[c]) |->
           IF endFrame > startFrame /\ startFrame < i /\ i <= endFrame
           THEN buffer[c][startFrame + endFrame + 1 - i]
           ELSE buffer[c][i]]]

\* the ScriptProcessor's buffer size (592: bs = 4096), scaled as the frame
\* rate is
BlockFrames == 2

\* createScriptProcessor(bs, 1, 1): the input is mixed down to one channel
MixDown(buffer) ==
  [i \in 1..Len(buffer[1]) |->
     IF Len(buffer) = 1 THEN buffer[1][i]
     ELSE (buffer[1][i] + buffer[2][i]) \div 2]

\* onaudioprocess (594-600) over a stream cut into blocks of bs frames: in
\* every block, frame i of the block takes a new sample if i % sSize = 0
\* and repeats out[i - 1] otherwise
onaudioprocess(inp, bits, normFreq) ==
  LET sSize == TimeUnit \div normFreq
  IN [f \in 1..Len(inp) |->
        LET i == (f - 1) % BlockFrames
        IN Quantize(inp[f - (i % sSize)], bits)]

\* getProcessedWavBlob 1378-1410: the offline chain.  The ten filters are at
\* 0 dB, where a biquad passes its input through; the master gain follows if
\* the node exists.
RenderChain(buffer, master) ==
  IF master = Undefined THEN buffer
  ELSE [c \in 1..Len(buffer) |->
          [i \in 1..Len(buffer[c]) |-> ScaleSample(buffer[c][i], master)]]

\* the peak found in the first channel only
MaxPeakFirstChannel(renderedBuffer) ==
  LET all == {Abs(renderedBuffer[1][i]) : i \in 1..Len(renderedBuffer[1])}
  IN IF all = {} THEN 0 ELSE CHOOSE m \in all : \A x \in all : x <= m

\* getProcessedWavBlob 1413-1419
MaxPeak(renderedBuffer) ==
  LET all == {Abs(renderedBuffer[c][i]) :
                c \in 1..Len(renderedBuffer), i \in 1..Len(renderedBuffer[1])}
  IN IF all = {} THEN 0 ELSE CHOOSE m \in all : \A x \in all : x <= m

\* getProcessedWavBlob 1421-1427: every sample times 0.98 / maxPeak.  The
\* result is exact: sample i of channel c is data[c][i] / unit of full scale.
Normalize(renderedBuffer) ==
  LET maxPeak == MaxPeak(renderedBuffer)
  IN IF maxPeak > 0
     THEN [data |-> [c \in 1..Len(renderedBuffer) |->
                       [i \in 1..Len(renderedBuffer[c]) |-> 49 * renderedBuffer[c][i]]],
           unit |-> 50 * maxPeak]
     ELSE [data |-> renderedBuffer, unit |-> SampleUnit]

\* ------------------------------------------------------------------------
\* The samples of one freeze and of one export
\* ------------------------------------------------------------------------
\* decoded files: a constant 0.5, a mono file touching both ends of the
\* scale, and a stereo file
Constant(x) == [i \in 1..MaxFrames |-> x]
Pattern == <<-SampleUnit, SampleUnit \div 2, SampleUnit, -1, SampleUnit \div 4, 0>>
Varied == [i \in 1..MaxFrames |-> Pattern[((i - 1) % Len(Pattern)) + 1]]
DecodedFiles ==
  {<<Constant(SampleUnit \div 2)>>, <<Varied>>, <<Constant(-(SampleUnit \div 4)), Varied>>}

\* region bounds, in 1/TimeRes seconds: up to one frame past the buffer's
\* end, where the x2 button (1222-1234) can put a region
MaxTime == ((MaxFrames + 1) * TimeRes) \div FrameRate
RegionBounds == {b \in (0..MaxTime) \X (0..MaxTime) : b[1] < b[2]}

\* effectParams as activateRealTimePreview leaves it, and after the knobs
\* p1, p2 were turned to k1, k2 and the volume knob to vol
ActivatedParams(type) ==
  LET u1 == updateEffectParam(NewParams(NoParams, type), NewPreview(1, type, 0),
                              1, Def1(type))
  IN IF type # "distortion" THEN updateEffectParam(u1.ep, u1.p, 2, Def2(type)) ELSE u1

TurnedParams(type, k1, k2, vol) ==
  LET a == ActivatedParams(type)
      u1 == updateEffectParam(a.ep, a.p, 1, k1)
      u2 == updateEffectParam(u1.ep, u1.p, 2, k2)
  IN [u2.ep EXCEPT !.volume = vol]

PreviewParams(type) ==
  {ActivatedParams(type).ep,
   IF type = "bitcrush" THEN TurnedParams(type, 0, KnobUnit, 50)
   ELSE TurnedParams(type, IF type = "delay" THEN KnobUnit ELSE 0, 0, 50)}
  \cup (IF type = "bitcrush" THEN {TurnedParams(type, 360, 540, StartVol)} ELSE {})

NoSamples == <<>>

DspInputs ==
  {[pc |-> "preview", originalBuffer |-> buf, before |-> buf,
    start |-> b[1], end |-> b[2], effectType |-> type, effectParams |-> ep,
    processed |-> NoSamples, same |-> FALSE, newBuffer |-> NoSamples,
    master |-> Undefined, maxPeak |-> 0, normalized |-> NoSamples, unit |-> SampleUnit,
    blob |-> NoSamples,
    \* the samples now held by the buffer object that was committed at the start
    sourceNow |-> buf,
    \* the edits applied, the file of the last reload, the trim handles and
    \* what trimAudio did, the arguments and result of a sliceBuffer call,
    \* the output of the live bitcrush
    ops |-> <<>>, wav |-> NoSamples,
    leftHandle |-> 0, rightHandle |-> RatioUnit, regionsCleared |-> FALSE, trimUI |-> 1,
    startRatio |-> 0, endRatio |-> 0, sliced |-> NoSamples,
    heard |-> NoSamples,
    \* the values of effectParams when freezeCurrentEffect was invoked
    invoked |-> NoParams] :
     buf \in DecodedFiles, b \in RegionBounds, type \in EffectTypes,
     ep \in UNION {PreviewParams(t) : t \in EffectTypes}}

\* a file is loaded, a region selected and a preview active on it; the
\* handler-level variables are not followed here and keep their initial values
InitDsp ==
  /\ InitPlayer /\ InitService
  /\ dsp \in {d \in DspInputs : d.effectParams \in PreviewParams(d.effectType)}

\* freezeCurrentEffect 763-774: processRange, which for the three effects is
\* renderOfflineEffect; a rejection goes to the catch (793)
FreezeRenderSamples ==
  /\ dsp.pc = "preview"
  /\ LET r == renderOfflineEffect(dsp.originalBuffer, dsp.start, dsp.end,
                                  dsp.effectType, dsp.effectParams)
     IN dsp' = IF r.raised THEN [dsp EXCEPT !.pc = "failed"]
               ELSE [dsp EXCEPT !.pc = "rendered", !.processed = r.buffer,
                                !.same = r.same]
  /\ UNCHANGED <<regions, effectParams, sliders, previewVars, chainVars, bufVars,
                 tasks, rafPending, knobListeners, nextNode, nextBuf>>
  /\ UNCHANGED serviceVars

\* freezeCurrentEffect 776-792: the volume loop on newBuffer, then
\* reloadWithBuffer up to its await, which commits newBuffer (244)
FreezeCommitSamples ==
  /\ dsp.pc = "rendered"
  /\ LET newBuffer == IF dsp.effectParams.volume # Undefined
                      THEN ApplyVolume(dsp.processed, dsp.start, dsp.end,
                                       dsp.effectParams.volume)
                      ELSE dsp.processed
     IN dsp' = [dsp EXCEPT !.pc = "committed", !.newBuffer = newBuffer,
                           !.originalBuffer = newBuffer,
                           !.sourceNow = IF dsp.same THEN newBuffer ELSE dsp.sourceNow]
  /\ UNCHANGED <<regions, effectParams, sliders, previewVars, chainVars, bufVars,
                 tasks, rafPending, knobListeners, nextNode, nextBuf>>
  /\ UNCHANGED serviceVars

\* The same freeze step by step.  freezeCurrentEffect 763-774 up to the
\* await of the offline render (renderOfflineEffect 190-241): the graph is
\* built from params.amount, params.time and params.feedback.
FreezeInvokedSamples ==
  /\ dsp.pc = "preview"
  /\ dsp' = [dsp EXCEPT !.pc = "pending", !.invoked = dsp.effectParams]
  /\ UNCHANGED <<regions, effectParams, sliders, previewVars, chainVars, bufVars,
                 tasks, rafPending, knobListeners, nextNode, nextBuf>>
  /\ UNCHANGED serviceVars

\* the knobs of the panel while the render is pending (886-897, 913-958):
\* they write into the same effectParams object that was passed to the render
KnobsTurnedSamples(ep) ==
  /\ dsp.pc = "pending"
  /\ ep \in PreviewParams(dsp.effectType) /\ ep # dsp.effectParams
  /\ dsp' = [dsp EXCEPT !.effectParams = ep]
  /\ UNCHANGED <<regions, effectParams, sliders, previewVars, chainVars, bufVars,
                 tasks, rafPending, knobListeners, nextNode, nextBuf>>
  /\ UNCHANGED serviceVars

\* renderOfflineEffect 242-258 after the await: the graph rendered with the
\* values it was built from, params.bits and params.normFreq read now (246)
FreezeRenderedSamples ==
  /\ dsp.pc = "pending"
  /\ LET params == [dsp.invoked EXCEPT !.bits = dsp.effectParams.bits,
                                       !.normFreq = dsp.effectParams.normFreq]
         r == renderOfflineEffect(dsp.originalBuffer, dsp.start, dsp.end,
                                  dsp.effectType, params)
     IN dsp' = IF r.raised THEN [dsp EXCEPT !.pc = "failed"]
               ELSE [dsp EXCEPT !.pc = "rendered", !.processed = r.buffer,
                                !.same = r.same]
  /\ UNCHANGED <<regions, effectParams, sliders, previewVars, chainVars, bufVars,
                 tasks, rafPending, knobListeners, nextNode, nextBuf>>
  /\ UNCHANGED serviceVars

\* reloadWithBuffer 241-247 and the decode handler 143-147: the buffer goes
\* through bufferToWave, and the decoded file replaces originalBuffer
DecodeSamples ==
  /\ dsp.pc = "committed"
  /\ LET blob == bufferToWave(dsp.originalBuffer, SampleUnit)
     IN dsp' = [dsp EXCEPT !.pc = "reloaded", !.wav = blob,
                           !.originalBuffer = DecodeWav(blob)]
  /\ UNCHANGED <<regions, effectParams, sliders, previewVars, chainVars, bufVars,
                 tasks, rafPending, knobListeners, nextNode, nextBuf>>
  /\ UNCHANGED serviceVars

\* master gains at the time of an export
ExportMasters == {0, MasterDefault, 150}

\* getProcessedWavBlob (1372-1431), with the preview still active or after
\* the freeze
ExportSamples(master) ==
  /\ dsp.pc \in {"preview", "reloaded"}
  /\ LET renderedBuffer == RenderChain(dsp.originalBuffer, master)
         norm == Normalize(renderedBuffer)
     IN dsp' = [dsp EXCEPT !.pc = "exported", !.master = master,
                           !.maxPeak = MaxPeak(renderedBuffer),
                           !.normalized = norm.data, !.unit = norm.unit,
                           !.blob = bufferToWave(norm.data, norm.unit)]
  /\ UNCHANGED <<regions, effectParams, sliders, previewVars, chainVars, bufVars,
                 tasks, rafPending, knobListeners, nextNode, nextBuf>>
  /\ UNCHANGED serviceVars

\* applyDirectEffect (522-535) with 'reverse' dropped on the region, up to
\* the await of reloadWithBuffer: reverseRange, and the commit of its result
\* (244).  A second drop can come before the reload has completed.
ReverseSamples ==
  /\ \/ dsp.pc = "preview"
     \/ dsp.pc = "committed" /\ dsp.ops = <<"reverse">>
  /\ dsp' = [dsp EXCEPT !.pc = "committed", !.ops = Append(dsp.ops, "reverse"),
                        !.originalBuffer =
                           reverseRange(dsp.originalBuffer, dsp.start, dsp.end)]
  /\ UNCHANGED <<regions, effectParams, sliders, previewVars, chainVars, bufVars,
                 tasks, rafPending, knobListeners, nextNode, nextBuf>>
  /\ UNCHANGED serviceVars

\* positions of a trim handle, in 1/100 percent
HandleValues == {0, 5, 2500, 2800, 5000, 9995, RatioUnit}

\* the drag handler keeps the left handle more than 2 percent left of the
\* right one (1048-1057)
TrimHandles == {h \in HandleValues \X HandleValues : h[1] + 200 < h[2]}

\* trimAudio (1074-1112) with the handles at left and right, up to its
\* return or to the await of reloadWithBuffer, which commits the slice (244)
TrimSamples(left, right) ==
  /\ dsp.pc = "preview"
  /\ LET tolerance == RatioUnit \div 1000
         startRatio == IF left < tolerance THEN 0 ELSE left
         endRatio == IF right > RatioUnit - tolerance THEN RatioUnit ELSE right
         startFrame == RatioFrame(startRatio, Len(dsp.originalBuffer[1]))
         endFrame == RatioFrame(endRatio, Len(dsp.originalBuffer[1]))
         trimmedBuffer == sliceBuffer(dsp.originalBuffer, startRatio, endRatio)
         handles == [dsp EXCEPT !.leftHandle = left, !.rightHandle = right,
                                !.ops = <<"trim">>]
     IN dsp' = IF \/ startRatio >= endRatio
                  \/ startRatio = 0 /\ endRatio = RatioUnit
                  \/ endFrame - startFrame <= 0
                  \/ trimmedBuffer.null
               THEN [handles EXCEPT !.pc = "returned"]
               ELSE [handles EXCEPT !.pc = "trimming",
                                    !.originalBuffer = trimmedBuffer.buffer]
  /\ UNCHANGED <<regions, effectParams, sliders, previewVars, chainVars, bufVars,
                 tasks, rafPending, knobListeners, nextNode, nextBuf>>
  /\ UNCHANGED serviceVars

\* the reload of a trim completes: the decode handler (143-147) and the
\* ready handler, which recreates the trim UI (155); then trimAudio clears
\* the regions and recreates the trim UI once more (1109-1110)
TrimReloaded ==
  /\ dsp.pc = "trimming"
  /\ LET blob == bufferToWave(dsp.originalBuffer, SampleUnit)
     IN dsp' = [dsp EXCEPT !.pc = "trimmed", !.wav = blob,
                           !.originalBuffer = DecodeWav(blob),
                           !.leftHandle = 0, !.rightHandle = RatioUnit,
                           !.regionsCleared = TRUE, !.trimUI = dsp.trimUI + 2]
  /\ UNCHANGED <<regions, effectParams, sliders, previewVars, chainVars, bufVars,
                 tasks, rafPending, knobListeners, nextNode, nextBuf>>
  /\ UNCHANGED serviceVars

\* a call of sliceBuffer on the committed buffer
SliceSamples(startRatio, endRatio) ==
  /\ dsp.pc = "preview"
  /\ dsp' = [dsp EXCEPT !.pc = "sliced", !.ops = <<"slice">>,
                        !.startRatio = startRatio, !.endRatio = endRatio,
                        !.sliced = sliceBuffer(dsp.originalBuffer, startRatio, endRatio)]
  /\ UNCHANGED <<regions, effectParams, sliders, previewVars, chainVars, bufVars,
                 tasks, rafPending, knobListeners, nextNode, nextBuf>>
  /\ UNCHANGED serviceVars

\* the region is played through the live bitcrush (585-601, 652)
PreviewSamples ==
  /\ dsp.pc = "preview"
  /\ dsp.effectType = "bitcrush"
  /\ Frame(dsp.end) <= Len(dsp.originalBuffer[1])
  /\ LET inp == ExtractClip(MixDown(dsp.originalBuffer), Frame(dsp.start), Frame(dsp.end))
     IN dsp' = [dsp EXCEPT !.pc = "previewed", !.ops = <<"preview">>,
                           !.heard = onaudioprocess(inp, dsp.effectParams.bits,
                                                    dsp.effectParams.normFreq)]
  /\ UNCHANGED <<regions, effectParams, sliders, previewVars, chainVars, bufVars,
                 tasks, rafPending, knobListeners, nextNode, nextBuf>>
  /\ UNCHANGED serviceVars

\* ------------------------------------------------------------------------
\* The export as a function of the player
\* ------------------------------------------------------------------------
\* the fields of the player a method can read
This == [originalBuffer |-> originalBuffer, chain |-> Chain, preview |-> Preview,
         effectParams |-> effectParams]

\* the offline filters of getProcessedWavBlob (1387-1397)
OfflineFilters(this) ==
  [i \in 1..Len(eqBands) |->
     [type |-> FilterType(eqBands[i]), frequency |-> eqBands[i],
      gain |-> this.chain.filters[i].gain]]

\* an export that rebuilds the preview gain in its offline chain
getProcessedWavBlobHearsPreview(this) ==
  IF this.originalBuffer = NoBuf THEN [kind |-> "null"]
  ELSE IF Len(this.chain.filters) < Len(eqBands) THEN [kind |-> "TypeError"]
  ELSE [kind |-> "blob", buffer |-> this.originalBuffer,
        filters |-> OfflineFilters(this),
        master |-> IF this.chain.masterGainNode # NULL THEN this.chain.masterGain
                   ELSE Undefined,
        preview |-> this.preview.previewGain]

\* getProcessedWavBlob (1372-1431): what the offline render and the
\* normalization are computed from.  The render is deterministic, so two
\* exports with the same source, filters and master gain are the same blob.
\* Without filters currentGains[i] is undefined and the assignment to
\* filter.gain.value (1394) throws.
getProcessedWavBlob(this) ==
  IF this.originalBuffer = NoBuf THEN [kind |-> "null"]
  ELSE IF Len(this.chain.filters) < Len(eqBands) THEN [kind |-> "TypeError"]
  ELSE [kind |-> "blob", buffer |-> this.originalBuffer,
        filters |-> OfflineFilters(this),
        master |-> IF this.chain.masterGainNode # NULL THEN this.chain.masterGain
                   ELSE Undefined,
        preview |-> Undefined]

\* ------------------------------------------------------------------------
\* The bank service, the dialogs and their callers
\* ------------------------------------------------------------------------
playerVars == <<regions, effectParams, sliders, previewVars, chainVars, bufVars,
                tasks, rafPending, knobListeners, nextNode, nextBuf, dsp>>

NoSample == [name |-> "", url |-> 0]

\* a pending invocation: handler is the caller that awaits the service
\* ("none": the service method called by itself), op the service method,
\* pc the await it stands at, sample the sample record, before the cache
\* when the method was entered, promise the dialog awaited, icon the
\* originalIcon of saveToCurrentBank
Call(handler, op, pc, bank, sample) ==
  [handler |-> handler, op |-> op, pc |-> pc, bank |-> bank, sample |-> sample,
   before |-> localCache, promise |-> NoPromise, icon |-> ""]

\* Modal.show (72-113): ensureDom, resolvePromise overwritten by the new
\* promise's resolve, the footer rebuilt for the type, a frame requested
Show(type) ==
  /\ Len(promises) < MaxShows
  /\ Modal' = [Modal EXCEPT !.overlay = TRUE, !.type = type,
                            !.resolvePromise = Len(promises) + 1,
                            !.frames = @ + 1]
  /\ promises' = Append(promises, [state |-> "pending", value |-> ""])

\* the dialogs a caller may still open, by its position
ShowsAhead(tk) ==
  IF tk.handler = "save"
  THEN (IF tk.pc = "render" THEN 2
        ELSE IF tk.pc \in {"prompt", "upload", "url", "updateDoc"} THEN 1 ELSE 0)
  ELSE IF tk.handler = "deleteBank"
  THEN (IF tk.pc \in {"confirm", "deleteObjects", "deleteDoc"} THEN 1 ELSE 0)
  ELSE 0

RECURSIVE SumAhead(_)
SumAhead(S) ==
  IF S = {} THEN 0
  ELSE LET tk == CHOOSE x \in S : TRUE IN ShowsAhead(tk) + SumAhead(S \ {tk})

\* room for a new caller that opens up to n dialogs
Room(n) == Len(promises) + SumAhead(calls) + n <= MaxShows

\* saveToCurrentBank's finally (1503-1506)
Restored(tk) == [innerHTML |-> tk.icon, pointerEvents |-> "auto"]

\* the awaited service method returns to its caller.  saveToCurrentBank
\* 1493-1506: after addSample the pads are redrawn and the alert shown; a
\* rejection is logged, reported with the native alert, and the finally
\* block restores the button.  The delete button of Ui.js 351-359 shows an
\* alert for either result.
Returned(tk, ok) ==
  IF tk.handler = "save"
  THEN IF ok
       THEN /\ Show("alert")
            /\ calls' = (calls \ {tk}) \cup
                          {[tk EXCEPT !.pc = "saved", !.promise = Len(promises) + 1]}
            /\ UNCHANGED saveBtn
       ELSE /\ calls' = calls \ {tk}
            /\ saveBtn' = Restored(tk)
            /\ UNCHANGED <<Modal, promises>>
  ELSE IF tk.handler = "deleteBank"
  THEN /\ Show("alert")
       /\ calls' = (calls \ {tk}) \cup
                     {[tk EXCEPT !.pc = "alert", !.promise = Len(promises) + 1]}
       /\ UNCHANGED saveBtn
  ELSE /\ calls' = calls \ {tk}
       /\ UNCHANGED <<Modal, promises, saveBtn>>

\* the call moves to its next await
Moved(tk, tk2) ==
  /\ calls' = (calls \ {tk}) \cup {tk2}
  /\ UNCHANGED <<Modal, promises, saveBtn>>

\* createBank (37-53) up to its await: nothing when the name is cached,
\* else the empty list is put into the cache before setDoc
createBank(name, cap) ==
  /\ Cardinality(calls) < cap
  /\ ~localCache[name].present
  /\ localCache' = [localCache EXCEPT ![name] = [present |-> TRUE, samples |-> <<>>]]
  /\ calls' = calls \cup {Call("none", "createBank", "setDoc", name, NoSample)}
  /\ UNCHANGED <<cloud, Modal, promises, saveBtn>>
  /\ UNCHANGED playerVars

\* setDoc resolved (42-47): the document is written with an empty list
createBankDone(tk) ==
  /\ tk \in calls /\ tk.op = "createBank" /\ tk.pc = "setDoc"
  /\ cloud' = [cloud EXCEPT !.docs[tk.bank] = [present |-> TRUE, samples |-> <<>>]]
  /\ Returned(tk, TRUE)
  /\ UNCHANGED localCache
  /\ UNCHANGED playerVars

\* a createBank that keeps its cache entry when setDoc rejected
createBankFailKeepsEntry(tk) ==
  /\ tk \in calls /\ tk.op = "createBank" /\ tk.pc = "setDoc"
  /\ Returned(tk, FALSE)
  /\ UNCHANGED <<localCache, cloud>>
  /\ UNCHANGED playerVars

\* setDoc rejected (48-52): the cache entry is deleted
createBankFail(tk) ==
  /\ tk \in calls /\ tk.op = "createBank" /\ tk.pc = "setDoc"
  /\ localCache' = [localCache EXCEPT ![tk.bank] = Absent]
  /\ Returned(tk, FALSE)
  /\ UNCHANGED cloud
  /\ UNCHANGED playerVars

\* addSample (116-121) up to the await of uploadBytes; the user is signed
\* in since initApp (part_001 158)
addSample(bankName, sampleName, cap) ==
  /\ Cardinality(calls) < cap
  /\ cloud.clock < MaxUploads
  /\ calls' = calls \cup {Call("none", "addSample", "upload", bankName,
                               [name |-> sampleName, url |-> 0])}
  /\ UNCHANGED <<localCache, cloud, Modal, promises, saveBtn>>
  /\ UNCHANGED playerVars

\* uploadBytes resolved (121): the file is stored under a path that holds
\* Date.now(), so no two uploads share a path
addSampleUploaded(tk) ==
  /\ tk \in calls /\ tk.op = "addSample" /\ tk.pc = "upload"
  /\ cloud.clock < MaxUploads
  /\ cloud' = [cloud EXCEPT !.clock = @ + 1, !.files = @ \cup {cloud.clock + 1}]
  /\ Moved(tk, [tk EXCEPT !.pc = "url", !.sample.url = cloud.clock + 1])
  /\ UNCHANGED localCache
  /\ UNCHANGED playerVars

\* getDownloadURL resolved (122), updateDoc begun (133)
addSampleUrl(tk) ==
  /\ tk \in calls /\ tk.op = "addSample" /\ tk.pc = "url"
  /\ Moved(tk, [tk EXCEPT !.pc = "updateDoc"])
  /\ UNCHANGED <<localCache, cloud>>
  /\ UNCHANGED playerVars

\* arrayUnion: the element is added unless the array holds an equal one
arrayUnion(list, x) ==
  IF \E i \in 1..Len(list) : list[i] = x THEN list ELSE Append(list, x)

\* arrayRemove: every element equal to x is removed
arrayRemove(list, x) == SelectSeq(list, LAMBDA s : s # x)

\* updateDoc resolved (133-140), which needs the document to exist: the
\* record joins the document's list and, if the bank is cached, the cache
addSampleDone(tk) ==
  /\ tk \in calls /\ tk.op = "addSample" /\ tk.pc = "updateDoc"
  /\ cloud.docs[tk.bank].present
  /\ cloud' = [cloud EXCEPT !.docs[tk.bank].samples = arrayUnion(@, tk.sample)]
  /\ localCache' = IF localCache[tk.bank].present
                   THEN [localCache EXCEPT ![tk.bank].samples = Append(@, tk.sample)]
                   ELSE localCache
  /\ Returned(tk, TRUE)
  /\ UNCHANGED playerVars

\* uploadBytes, getDownloadURL or updateDoc rejected: addSample rejects
addSampleFail(tk) ==
  /\ tk \in calls /\ tk.op = "addSample"
  /\ tk.pc \in {"upload", "url", "updateDoc"}
  /\ Returned(tk, FALSE)
  /\ UNCHANGED <<localCache, cloud>>
  /\ UNCHANGED playerVars

\* deleteSample (146-150) up to the await of updateDoc; the pad's delete
\* button passes the record it took from the cache (Ui.js 421-534)
deleteSample(bankName, sampleObject, cap) ==
  /\ Cardinality(calls) < cap
  /\ \E i \in 1..Len(localCache[bankName].samples) :
        localCache[bankName].samples[i] = sampleObject
  /\ calls' = calls \cup {Call("none", "deleteSample", "updateDoc", bankName, sampleObject)}
  /\ UNCHANGED <<localCache, cloud, Modal, promises, saveBtn>>
  /\ UNCHANGED playerVars

\* updateDoc resolved (148-150), deleteObject begun (153-155)
deleteSampleUpdated(tk) ==
  /\ tk \in calls /\ tk.op = "deleteSample" /\ tk.pc = "updateDoc"
  /\ cloud.docs[tk.bank].present
  /\ cloud' = [cloud EXCEPT !.docs[tk.bank].samples = arrayRemove(@, tk.sample)]
  /\ Moved(tk, [tk EXCEPT !.pc = "deleteObject"])
  /\ UNCHANGED localCache
  /\ UNCHANGED playerVars

\* updateDoc rejected: deleteSample rejects
deleteSampleFail(tk) ==
  /\ tk \in calls /\ tk.op = "deleteSample" /\ tk.pc = "updateDoc"
  /\ Returned(tk, FALSE)
  /\ UNCHANGED <<localCache, cloud>>
  /\ UNCHANGED playerVars

\* deleteObject settled (155-163): gone says that the file was deleted, a
\* rejection is only logged; then the cache list is filtered by name
deleteSampleDone(tk, gone) ==
  /\ tk \in calls /\ tk.op = "deleteSample" /\ tk.pc = "deleteObject"
  /\ cloud' = IF gone THEN [cloud EXCEPT !.files = @ \ {tk.sample.url}] ELSE cloud
  /\ localCache' =
       IF localCache[tk.bank].present
       THEN [localCache EXCEPT ![tk.bank].samples =
                                  SelectSeq(@, LAMBDA s : s.name # tk.sample.name)]
       ELSE localCache
  /\ Returned(tk, TRUE)
  /\ UNCHANGED playerVars

\* deleteBank (59-98) up to the await of the storage deletions
deleteBank(bankName, cap) ==
  /\ Cardinality(calls) < cap
  /\ calls' = calls \cup {Call("none", "deleteBank", "deleteObjects", bankName, NoSample)}
  /\ UNCHANGED <<localCache, cloud, Modal, promises, saveBtn>>
  /\ UNCHANGED playerVars

\* the files of the list that was cached when the method was entered (62)
FilesOf(tk) ==
  {tk.before[tk.bank].samples[i].url : i \in 1..Len(tk.before[tk.bank].samples)}

\* Promise.all resolved (90-98): each deletion that rejected was only
\* logged, gone are the files deleted; deleteDoc begun (101)
deleteBankFiles(tk, gone) ==
  /\ tk \in calls /\ tk.op = "deleteBank" /\ tk.pc = "deleteObjects"
  /\ gone \subseteq FilesOf(tk)
  /\ cloud' = [cloud EXCEPT !.files = @ \ gone]
  /\ Moved(tk, [tk EXCEPT !.pc = "deleteDoc"])
  /\ UNCHANGED localCache
  /\ UNCHANGED playerVars

\* deleteDoc resolved (101-106): the document and the cache entry are gone
deleteBankDone(tk) ==
  /\ tk \in calls /\ tk.op = "deleteBank" /\ tk.pc = "deleteDoc"
  /\ cloud' = [cloud EXCEPT !.docs[tk.bank] = Absent]
  /\ localCache' = [localCache EXCEPT ![tk.bank] = Absent]
  /\ Returned(tk, TRUE)
  /\ UNCHANGED playerVars

\* deleteDoc rejected (107-110): false is returned
deleteBankFail(tk) ==
  /\ tk \in calls /\ tk.op = "deleteBank" /\ tk.pc = "deleteDoc"
  /\ Returned(tk, FALSE)
  /\ UNCHANGED <<localCache, cloud>>
  /\ UNCHANGED playerVars

\* the overlay of an open dialog covers the page: the buttons below it
\* are clicked only while no dialog is shown or about to be
NoDialog == ~Modal.active /\ Modal.frames = 0

\* saveToCurrentBank (1463-1482) up to its first await; bank is the value
\* of the bank select, "" when none is chosen
saveToCurrentBank(bank, cap) ==
  /\ Cardinality(calls) < cap
  /\ NoDialog
  /\ saveBtn.pointerEvents # "none"
  /\ IF bank = "" THEN TRUE ELSE localCache[bank].present
  /\ IF originalBuffer = NoBuf \/ bank = ""
     THEN /\ Room(1)
          /\ Show("alert")
          /\ calls' = calls \cup
                        {[Call("save", "none", "alert", bank, NoSample)
                            EXCEPT !.promise = Len(promises) + 1]}
          /\ UNCHANGED saveBtn
     ELSE /\ Room(2)
          /\ cloud.clock < MaxUploads
          /\ saveBtn' = [innerHTML |-> "clock", pointerEvents |-> "none"]
          /\ calls' = calls \cup
                        {[Call("save", "none", "render", bank, NoSample)
                            EXCEPT !.icon = saveBtn.innerHTML]}
          /\ UNCHANGED <<Modal, promises>>
  /\ UNCHANGED <<localCache, cloud>>
  /\ UNCHANGED playerVars

\* getProcessedWavBlob resolved (1484-1487): the naming prompt is shown
SaveRendered(tk) ==
  /\ tk \in calls /\ tk.handler = "save" /\ tk.pc = "render"
  /\ Show("prompt")
  /\ calls' = (calls \ {tk}) \cup
                {[tk EXCEPT !.pc = "prompt", !.promise = Len(promises) + 1]}
  /\ UNCHANGED <<localCache, cloud, saveBtn>>
  /\ UNCHANGED playerVars

\* getProcessedWavBlob rejected: catch (1498-1502) and finally (1503-1506)
SaveRenderFail(tk) ==
  /\ tk \in calls /\ tk.handler = "save" /\ tk.pc = "render"
  /\ calls' = calls \ {tk}
  /\ saveBtn' = Restored(tk)
  /\ UNCHANGED <<localCache, cloud, Modal, promises>>
  /\ UNCHANGED playerVars

\* the delete-bank button (Ui.js 344-348) up to the await of its confirm
deleteBankClicked(bank, cap) ==
  /\ Cardinality(calls) < cap
  /\ NoDialog
  /\ localCache[bank].present
  /\ Room(2)
  /\ Show("confirm")
  /\ calls' = calls \cup
                {[Call("deleteBank", "none", "confirm", bank, NoSample)
                    EXCEPT !.promise = Len(promises) + 1]}
  /\ UNCHANGED <<localCache, cloud, saveBtn>>
  /\ UNCHANGED playerVars

\* the frame requested by show (103-111): the overlay becomes active
ModalFrame ==
  /\ Modal.frames > 0
  /\ Modal' = [Modal EXCEPT !.active = TRUE, !.frames = @ - 1]
  /\ UNCHANGED <<localCache, cloud, calls, promises, saveBtn>>
  /\ UNCHANGED playerVars

\* what the buttons and keys of a dialog pass to close (47-59, 84-101)
DismissValues(type) ==
  IF type = "alert" THEN {"true", "null"}
  ELSE IF type = "confirm" THEN {"true", "false", "null"}
  ELSE SampleNames \cup {"null"}

\* the caller whose await the resolved promise ends goes on: a named
\* sample enters addSample (1493), a cancelled prompt throws into the
\* silent catch and the finally (1486, 1498-1506), the alert after a save
\* ends in the finally, a confirmed deletion enters deleteBank (Ui.js 351)
Continue(tk, value) ==
  IF tk.handler = "save" /\ tk.pc = "prompt" /\ value \in SampleNames
  THEN /\ calls' = (calls \ {tk}) \cup
                     {[tk EXCEPT !.op = "addSample", !.pc = "upload",
                                 !.sample = [name |-> value, url |-> 0],
                                 !.before = localCache, !.promise = NoPromise]}
       /\ UNCHANGED saveBtn
  ELSE IF tk.handler = "save" /\ tk.pc \in {"prompt", "saved"}
  THEN calls' = calls \ {tk} /\ saveBtn' = Restored(tk)
  ELSE IF tk.handler = "deleteBank" /\ tk.pc = "confirm" /\ value = "true"
  THEN /\ calls' = (calls \ {tk}) \cup
                     {[tk EXCEPT !.op = "deleteBank", !.pc = "deleteObjects",
                                 !.before = localCache, !.promise = NoPromise]}
       /\ UNCHANGED saveBtn
  ELSE calls' = calls \ {tk} /\ UNCHANGED saveBtn

\* a button or key of the open dialog: close (123-131) removes the active
\* class and calls the resolve held in resolvePromise, if any
Dismiss(value) ==
  /\ Modal.active
  /\ value \in DismissValues(Modal.type)
  /\ Modal' = [Modal EXCEPT !.active = FALSE, !.resolvePromise = NoPromise]
  /\ LET p == Modal.resolvePromise
         awaiting == {tk \in calls : tk.promise = p}
     IN IF p = NoPromise
        THEN UNCHANGED <<promises, calls, saveBtn>>
        ELSE /\ promises' = [promises EXCEPT ![p] = [state |-> "resolved", value |-> value]]
             /\ IF awaiting = {} THEN UNCHANGED <<calls, saveBtn>>
                ELSE Continue(CHOOSE tk \in awaiting : TRUE, value)
  /\ UNCHANGED <<localCache, cloud>>
  /\ UNCHANGED playerVars

\* ------------------------------------------------------------------------
\* Specifications
\* ------------------------------------------------------------------------
\* Spec: loading, regions, the effect lifecycle and the reloads, with up to
\* MaxTasks asynchronous invocations pending at once.  The gain inputs are
\* left out: they write only masterGain, previewGain, effectParams.volume,
\* sliders and the filters' gains, which no other handler reads.
Next ==
  \/ LoadFile(MaxTasks)
  \/ \E tk \in PendingTasks : LoadDone(tk)
  \/ \E tk \in PendingTasks : LoadFail(tk)
  \/ AnimationFrame
  \/ \E r \in RegionIds : RegionCreated(r)
  \/ \E r \in RegionIds : RegionRemoved(r)
  \/ \E r \in RegionIds, type \in EffectTypes : activateRealTimePreview(r, type)
  \/ FreezeStart(MaxTasks)
  \/ \E tk \in PendingTasks : FreezeRenderDone(tk)
  \/ \E tk \in PendingTasks : FreezeRenderFail(tk)
  \/ \E r \in RegionIds : applyDirectEffect(r, MaxTasks)

Spec == Init /\ [][Next]_vars

\* SpecGains: the same handlers with one asynchronous invocation at a time,
\* interleaved with the gain inputs (volume knob, master fader, EQ gesture).
GainTasks == 1

NextGains ==
  \/ LoadFile(GainTasks)
  \/ \E tk \in PendingTasks : LoadDone(tk)
  \/ \E tk \in PendingTasks : LoadFail(tk)
  \/ AnimationFrame
  \/ \E r \in RegionIds : RegionCreated(r)
  \/ \E r \in RegionIds : RegionRemoved(r)
  \/ \E r \in RegionIds, type \in EffectTypes : activateRealTimePreview(r, type)
  \/ FreezeStart(GainTasks)
  \/ \E tk \in PendingTasks : FreezeRenderDone(tk)
  \/ \E tk \in PendingTasks : FreezeRenderFail(tk)
  \/ \E r \in RegionIds : applyDirectEffect(r, GainTasks)
  \/ \E v \in KnobValues : VolKnob(v)
  \/ \E v \in FaderValues : MasterFader(v)
  \/ \E i \in DrawBands, v \in DrawValues : EqDraw(i, v)

SpecGains == Init /\ [][NextGains]_vars

\* SpecMix: the handlers of SpecGains with the trim and its reload and the
\* slider events.
SliderBands == {1}
SliderValues == {-12}

NextMix ==
  \/ LoadFile(GainTasks)
  \/ \E tk \in PendingTasks : tk.kind # "trim" /\ LoadDone(tk)
  \/ \E tk \in PendingTasks : LoadFail(tk)
  \/ AnimationFrame
  \/ \E r \in RegionIds : RegionCreated(r)
  \/ \E r \in RegionIds : RegionRemoved(r)
  \/ \E r \in RegionIds, type \in EffectTypes : activateRealTimePreview(r, type)
  \/ FreezeStart(GainTasks)
  \/ \E tk \in PendingTasks : FreezeRenderDone(tk)
  \/ \E tk \in PendingTasks : FreezeRenderFail(tk)
  \/ \E r \in RegionIds : applyDirectEffect(r, GainTasks)
  \/ trimAudio(GainTasks)
  \/ \E tk \in PendingTasks : TrimLoadDone(tk)
  \/ \E v \in KnobValues : VolKnob(v)
  \/ \E v \in FaderValues : MasterFader(v)
  \/ \E i \in DrawBands, v \in DrawValues : EqDraw(i, v)
  \/ \E i \in SliderBands, v \in SliderValues : SliderInput(i, v)
  \/ \E i \in SliderBands : SliderReset(i)

SpecMix == Init /\ [][NextMix]_vars

\* the knob drag (849-857): the value the knob showed at mousedown plus half a
\* hundredth per pixel of upward movement, limited to [0, 1]
DragValue(startVal, delta) == Max(0, Min(100, startVal + delta \div 2))

\* SpecVolume: loading, regions, activation and cancel of previews,
\* interleaved with the master fader at both ends of its travel
\* (Ui.js 234) and the volume knob dragged past both ends of its travel from
\* the position the activation gives it (558).
KnobDrags == {-200, 60}
FaderEnds == {0, 150}

NextVolume ==
  \/ LoadFile(GainTasks)
  \/ \E tk \in PendingTasks : LoadDone(tk)
  \/ AnimationFrame
  \/ \E r \in RegionIds : RegionCreated(r)
  \/ \E r \in RegionIds : RegionRemoved(r)
  \/ \E r \in RegionIds, type \in EffectTypes : activateRealTimePreview(r, type)
  \/ \E delta \in KnobDrags : VolKnob(DragValue(StartVol, delta))
  \/ \E v \in FaderEnds : MasterFader(v)

SpecVolume == Init /\ [][NextVolume]_vars

\* SpecSave: a store that holds the banks, a file loaded or not, the save
\* button and the delete-bank button with their dialogs and service calls.
SaveCalls == 2

InitSave ==
  /\ InitPlayer /\ dsp = NoDsp
  /\ localCache = [b \in BankNames |-> [present |-> TRUE, samples |-> <<>>]]
  /\ cloud = [docs |-> localCache, files |-> {}, clock |-> 0]
  /\ calls = {}
  /\ Modal = [overlay |-> FALSE, active |-> FALSE, type |-> "none",
              resolvePromise |-> NoPromise, frames |-> 0]
  /\ promises = <<>>
  /\ saveBtn = [innerHTML |-> "save", pointerEvents |-> ""]

\* the steps that need no new click: settled remote operations
CallSteps(tk) ==
  \/ SaveRendered(tk)
  \/ SaveRenderFail(tk)
  \/ addSampleUploaded(tk)
  \/ addSampleUrl(tk)
  \/ addSampleDone(tk)
  \/ addSampleFail(tk)
  \/ \E gone \in SUBSET (1..MaxUploads) : deleteBankFiles(tk, gone)
  \/ deleteBankDone(tk)
  \/ deleteBankFail(tk)

NextSave ==
  \/ LoadFile(GainTasks)
  \/ \E tk \in PendingTasks : LoadDone(tk)
  \/ AnimationFrame
  \/ \E bank \in BankNames \cup {""} : saveToCurrentBank(bank, SaveCalls)
  \/ \E bank \in BankNames : deleteBankClicked(bank, SaveCalls)
  \/ \E tk \in calls : CallSteps(tk)
  \/ ModalFrame
  \/ \E value \in SampleNames \cup {"true", "false", "null"} : Dismiss(value)

SpecSave == InitSave /\ [][NextSave]_vars

\* FairSave: every remote operation settles, every requested frame comes,
\* and the user dismisses a dialog that stays open.
FairSave ==
  /\ SpecSave
  /\ WF_vars(\E tk \in calls : tk.handler = "save" /\ CallSteps(tk))
  /\ WF_vars(\E tk \in calls : tk.handler = "deleteBank" /\ CallSteps(tk))
  /\ WF_vars(ModalFrame)
  /\ WF_vars(\E value \in SampleNames \cup {"true", "false", "null"} : Dismiss(value))

\* SpecBank: the methods of the bank service called one after the other,
\* each of its remote operations resolving or rejecting.
BankCalls == 1
SampleRecords == [name : SampleNames, url : 1..MaxUploads]

NextBank ==
  \/ \E name \in BankNames : createBank(name, BankCalls)
  \/ \E tk \in calls : createBankDone(tk)
  \/ \E tk \in calls : createBankFail(tk)
  \/ \E b \in BankNames, n \in SampleNames : addSample(b, n, BankCalls)
  \/ \E tk \in calls : addSampleUploaded(tk)
  \/ \E tk \in calls : addSampleUrl(tk)
  \/ \E tk \in calls : addSampleDone(tk)
  \/ \E tk \in calls : addSampleFail(tk)
  \/ \E b \in BankNames, s \in SampleRecords : deleteSample(b, s, BankCalls)
  \/ \E tk \in calls : deleteSampleUpdated(tk)
  \/ \E tk \in calls : deleteSampleFail(tk)
  \/ \E tk \in calls, gone \in BOOLEAN : deleteSampleDone(tk, gone)
  \/ \E b \in BankNames : deleteBank(b, BankCalls)
  \/ \E tk \in calls, gone \in SUBSET (1..MaxUploads) : deleteBankFiles(tk, gone)
  \/ \E tk \in calls : deleteBankDone(tk)
  \/ \E tk \in calls : deleteBankFail(tk)

SpecBank == Init /\ [][NextBank]_vars

\* SpecRace: one file, two regions, previews and up to two invocations of
\* freezeCurrentEffect pending at once: the APPLY button clicked twice, or
\* the freeze button once after a reload has bound a second listener to it
\* (836-839).
RaceTasks == 2
RaceRegions == 1..2

NextRace ==
  \/ LoadFile(GainTasks)
  \/ \E tk \in PendingTasks : LoadDone(tk)
  \/ AnimationFrame
  \/ \E r \in RaceRegions : RegionCreated(r)
  \/ \E r \in RaceRegions, type \in EffectTypes : activateRealTimePreview(r, type)
  \/ FreezeStart(RaceTasks)
  \/ \E tk \in PendingTasks : FreezeRenderDone(tk)

SpecRace == Init /\ [][NextRace]_vars

\* SpecRemove: previews on two regions and every way a region goes away:
\* its delete button, the x2 and 1/2 buttons, a trim.
NextRemove ==
  \/ LoadFile(GainTasks)
  \/ \E tk \in PendingTasks : tk.kind # "trim" /\ LoadDone(tk)
  \/ AnimationFrame
  \/ \E r \in RaceRegions : RegionCreated(r)
  \/ \E r \in RaceRegions : RegionRemoved(r)
  \/ \E r \in RaceRegions : ResizeLoop(r)
  \/ \E r \in RaceRegions, type \in EffectTypes : activateRealTimePreview(r, type)
  \/ trimAudio(GainTasks)
  \/ \E tk \in PendingTasks : TrimLoadDone(tk)

SpecRemove == Init /\ [][NextRemove]_vars

\* SpecKnobs: loading, regions, activation and cancel of previews,
\* interleaved with the two parameter knobs.
NextKnobs ==
  \/ LoadFile(GainTasks)
  \/ \E tk \in PendingTasks : LoadDone(tk)
  \/ AnimationFrame
  \/ \E r \in RegionIds : RegionCreated(r)
  \/ \E r \in RegionIds : RegionRemoved(r)
  \/ \E r \in RegionIds, type \in EffectTypes : activateRealTimePreview(r, type)
  \/ \E knobIndex \in {1, 2}, k \in ParamKnobValues : ParamKnob(knobIndex, k)

SpecKnobs == Init /\ [][NextKnobs]_vars

\* SpecDsp: the samples through one freeze (render, volume, commit, reload)
\* and one export.
NextDsp ==
  \/ FreezeRenderSamples
  \/ FreezeCommitSamples
  \/ DecodeSamples
  \/ \E master \in ExportMasters : ExportSamples(master)

SpecDsp == InitDsp /\ [][NextDsp]_vars

\* SpecTurn: the samples through one freeze during whose render the knobs
\* of the panel are turned.
NextTurn ==
  \/ FreezeInvokedSamples
  \/ \E ep \in UNION {PreviewParams(t) : t \in EffectTypes} : KnobsTurnedSamples(ep)
  \/ FreezeRenderedSamples
  \/ FreezeCommitSamples

SpecTurn == InitDsp /\ [][NextTurn]_vars

\* SpecEdit: the same, with the direct edits (reverse, trim), a call of
\* sliceBuffer and the live bitcrush.
NextEdit ==
  \/ FreezeRenderSamples
  \/ FreezeCommitSamples
  \/ DecodeSamples
  \/ \E master \in ExportMasters : ExportSamples(master)
  \/ ReverseSamples
  \/ \E h \in TrimHandles : TrimSamples(h[1], h[2])
  \/ TrimReloaded
  \/ \E startRatio \in HandleValues, endRatio \in HandleValues :
        SliceSamples(startRatio, endRatio)
  \/ PreviewSamples

SpecEdit == InitDsp /\ [][NextEdit]_vars

\* ------------------------------------------------------------------------
\* Vocabulary of the properties
\* ------------------------------------------------------------------------
Idle ==
  /\ currentEffectType = NoType
  /\ activeRegion = NoRegion
  /\ previewEffectNode = NULL
  /\ delayNode = NULL
  /\ feedbackNode = NULL
  /\ previewGainNode = NULL

PreviewNodes == {previewEffectNode, delayNode, feedbackNode, previewGainNode} \ {NULL}

FirstFilter == FilterNode(1)
LastFilter == FilterNode(Len(eqBands))

\* the routing the specification prescribes for the current effect state
PrescribedSourceEdges ==
  IF currentEffectType \in {"distortion", "bitcrush"}
  THEN {<<MediaNode, previewEffectNode>>, <<previewEffectNode, EqInput>>}
  ELSE IF currentEffectType = "delay"
  THEN {<<MediaNode, EqInput>>, <<MediaNode, delayNode>>, <<delayNode, feedbackNode>>,
        <<feedbackNode, delayNode>>, <<delayNode, EqInput>>}
  ELSE {<<MediaNode, EqInput>>}

PrescribedGainEdges ==
  IF currentEffectType # NoType
  THEN {<<EqInput, previewGainNode>>, <<previewGainNode, FirstFilter>>}
  ELSE {<<EqInput, FirstFilter>>}

PrescribedFilterEdges ==
  {<<FilterNode(i), FilterNode(i + 1)>> : i \in 1..(Len(eqBands) - 1)}
    \cup {<<LastFilter, MasterNode>>, <<MasterNode, Destination>>,
          <<MasterNode, AnalyserNode>>}

PrescribedEdges == PrescribedSourceEdges \cup PrescribedGainEdges \cup PrescribedFilterEdges

\* nodes the source's signal reaches
RECURSIVE ReachFrom(_, _)
ReachFrom(S, E) ==
  LET next == S \cup {e[2] : e \in {x \in E : x[1] \in S}}
  IN IF next = S THEN S ELSE ReachFrom(next, E)

LiveNodes == ReachFrom({MediaNode}, edges)

FreezePending(tk) == tk.kind = "freeze" /\ tk.pc = "render"

\* ------------------------------------------------------------------------
\* Properties
\* ------------------------------------------------------------------------

\* C1: when activateRealTimePreview runs while another preview is active, the
\* first preview is fully torn down: after the step the references are those
\* of the new preview only, and no node of the first preview keeps an edge
\* in the graph.
C1_FirstPreviewTornDown ==
  [][ (currentEffectType # NoType
         /\ \E r \in RegionIds, type \in EffectTypes : activateRealTimePreview(r, type))
      => /\ PreviewNodes' \cap PreviewNodes = {}
         /\ \A e \in edges' : e[1] \notin PreviewNodes /\ e[2] \notin PreviewNodes ]_vars

\* C2: after every completed rebuild the edge set of the live graph is exactly
\* the set prescribed for the current effect state: no edge of an earlier
\* rebuild survives.
C2_EdgesExactlyPrescribed == eqInitialized => edges = PrescribedEdges

\* C3: while a freeze's offline render is pending, no second freeze and no
\* cancel for the same region takes a step (it is rejected or queued).
C3_NoReentrantFreezeOrCancel ==
  [][ \A tk \in PendingTasks :
        (FreezePending(tk) /\ activeRegion = tk.region)
        => /\ ~ FreezeStart(MaxTasks)
           /\ ~ RegionRemoved(tk.region) ]_vars

FreezeCompletes(tk) == tk.kind = "freeze" /\ LoadDone(tk)

FreezeDelivers(tk) == FreezeRenderDone(tk) /\ activeRegion # NoRegion

CancelRuns == \E r \in RegionIds : RegionRemoved(r) /\ activeRegion = r

EntersPreview == currentEffectType' # NoType /\ PreviewNodes' # PreviewNodes

Activates == \E r \in RegionIds, type \in EffectTypes : activateRealTimePreview(r, type)

C5_FreezeAwaitsRender ==
  [][ /\ FreezeStart(MaxTasks) => UNCHANGED <<previewVars, chainVars, bufVars>>
      /\ \A tk \in PendingTasks' \ PendingTasks :
           (tk.kind = "freeze" /\ tk.buf # NoBuf)
           => /\ \E was \in PendingTasks :
                   FreezePending(was) /\ tk = [was EXCEPT !.pc = "load", !.buf = tk.buf]
              /\ tk.buf \notin everCommitted
              /\ originalBuffer' = tk.buf
      /\ \A tk \in PendingTasks : FreezeCompletes(tk) => tk.buf \in everCommitted ]_vars

\* a freeze whose render was delivered: preview closed, rendered buffer committed
C5_Witness ==
  \E tk \in PendingTasks :
    /\ tk.kind = "freeze" /\ tk.pc = "load"
    /\ originalBuffer = tk.buf
    /\ tk.src # tk.buf

\* C6: originalBuffer never refers to a buffer other than the one loaded in
\* the player, neither during a reload nor after a failed load.
C6_CommittedIsLoaded == originalBuffer = playerBuffer

\* C7: when the offline render or the following load fails during
\* freezeCurrentEffect or applyDirectEffect, the committed buffer afterwards
\* is the buffer that was committed when the operation was invoked.
C7_FailureKeepsCommitted ==
  [][ \A tk \in PendingTasks :
        (tk.kind \in {"freeze", "reverse"} /\ (FreezeRenderFail(tk) \/ LoadFail(tk)))
        => originalBuffer' = tk.src ]_vars

\* C8: after a rebuild the edges leaving the source are determined by the
\* effect state: clean, source -> eqInput only; distortion or bitcrush,
\* source -> previewEffectNode -> eqInput only; delay, the dry edge and the
\* wet path through delayNode with the delay/feedback loop.
C8_SourceRouting ==
  eqInitialized =>
    IF currentEffectType \in {"distortion", "bitcrush"}
    THEN /\ OutEdges(edges, MediaNode) = {previewEffectNode}
         /\ OutEdges(edges, previewEffectNode) = {EqInput}
    ELSE IF currentEffectType = "delay"
    THEN /\ OutEdges(edges, MediaNode) = {EqInput, delayNode}
         /\ OutEdges(edges, delayNode) = {feedbackNode, EqInput}
         /\ OutEdges(edges, feedbackNode) = {delayNode}
    ELSE OutEdges(edges, MediaNode) = {EqInput}

C8_Witness ==
  /\ eqInitialized
  /\ currentEffectType = "delay"
  /\ <<delayNode, feedbackNode>> \in edges

\* C9: after a rebuild, with an effect active eqInput feeds only the preview
\* gain node, which feeds only the first filter; with no effect eqInput feeds
\* the first filter directly and no preview node carries the source's signal.
C9_PreviewGainStage ==
  eqInitialized =>
    IF currentEffectType # NoType
    THEN /\ previewGainNode # NULL
         /\ OutEdges(edges, EqInput) = {previewGainNode}
         /\ OutEdges(edges, previewGainNode) = {FirstFilter}
    ELSE /\ OutEdges(edges, EqInput) = {FirstFilter}
         /\ \A n \in LiveNodes : n[1] # "fx"

C9_Witness ==
  /\ eqInitialized
  /\ currentEffectType # NoType
  /\ <<previewGainNode, FirstFilter>> \in edges

\* C10: in the clean state a further initEqualizer changes neither the edge
\* set nor the EQ gains nor the master gain, and a second call yields what
\* the first one did.
C10_CleanRebuildIdempotent ==
  currentEffectType = NoType =>
    LET once == initEqualizer(Chain, Preview, sliders)
        twice == initEqualizer(once, Preview, sliders)
    IN /\ twice = once
       /\ eqInitialized => /\ once.edges = edges
                           /\ once.filters = filters
                           /\ once.masterGain = masterGain

\* a clean chain whose gains were moved away from their defaults
C10_Witness ==
  /\ eqInitialized
  /\ currentEffectType = NoType
  /\ masterGain # MasterDefault
  /\ \E i \in 1..Len(filters) : filters[i].gain # 0

\* the defaults the specification documents, in the model's units
DocumentedDefaults ==
  [volume |-> 80, amount |-> 50 * AmountUnit, time |-> (25 * TimeUnit) \div 100,
   feedback |-> (4 * FeedbackUnit) \div 10, bits |-> 8,
   normFreq |-> (10 * TimeUnit) \div 100]

\* C11: immediately after activateRealTimePreview(region, type) the effect
\* parameters, in effectParams and on the live nodes, equal the documented
\* defaults: distortion amount 50; delay time 0.25 s and feedback 0.4;
\* bitcrush bits 8 and normFreq 0.1; preview volume 0.8.
C11_DefaultsAfterActivation ==
  [][ Activates =>
        /\ effectParams'.volume = DocumentedDefaults.volume
        /\ previewGain' = DocumentedDefaults.volume
        /\ currentEffectType' = "distortion" =>
              /\ effectParams'.amount = DocumentedDefaults.amount
              /\ curveAmount' = DocumentedDefaults.amount
        /\ currentEffectType' = "delay" =>
              /\ effectParams'.time = DocumentedDefaults.time
              /\ delayTime' = DocumentedDefaults.time
              /\ effectParams'.feedback = DocumentedDefaults.feedback
              /\ feedbackGain' = DocumentedDefaults.feedback
        /\ currentEffectType' = "bitcrush" =>
              /\ effectParams'.bits = DocumentedDefaults.bits
              /\ effectParams'.normFreq = DocumentedDefaults.normFreq ]_vars

\* a parameter is unset or within [lo, hi]
Within(x, lo, hi) == x = Undefined \/ (lo <= x /\ x <= hi)

ParamsInRange ==
  /\ Within(effectParams.amount, 0, 400 * AmountUnit)
  /\ Within(curveAmount, 0, 400 * AmountUnit)
  /\ Within(effectParams.time, TimeUnit \div 100, TimeUnit)
  /\ Within(delayTime, TimeUnit \div 100, TimeUnit)
  /\ Within(effectParams.feedback, 0, (9 * FeedbackUnit) \div 10)
  /\ Within(feedbackGain, 0, (9 * FeedbackUnit) \div 10)
  /\ Within(effectParams.bits, 1, 16)
  /\ Within(effectParams.normFreq, TimeUnit \div 100, TimeUnit)

\* the value x / unit is lo + (hi - lo) * k / KnobUnit
Linear(x, unit, lo, hi, k) ==
  x * KnobUnit = unit * (lo * KnobUnit + (hi - lo) * k)

\* the same with lo and hi given in hundredths (unit is a multiple of 100)
LinearHundredths(x, unit, lo, hi, k) ==
  x * KnobUnit = (unit \div 100) * (lo * KnobUnit + (hi - lo) * k)

\* C12: updateEffectParam maps the normalized knob value linearly onto the
\* active effect's range (amount = 400 v; time = 0.01 + 0.99 v; feedback =
\* 0.9 v; bits = 1 + floor(15 v); normFreq = 0.01 + 0.99 v); every parameter
\* stays within its range; and a knob update with no effect active changes
\* no parameter.
C12_KnobMapsLinearly ==
  [][ /\ ParamsInRange'
      /\ \A knobIndex \in {1, 2}, k \in ParamKnobValues :
            ParamKnob(knobIndex, k) =>
              /\ currentEffectType = NoType => UNCHANGED <<effectParams, previewVars>>
              /\ (currentEffectType = "distortion" /\ knobIndex = 1) =>
                    /\ Linear(effectParams'.amount, AmountUnit, 0, 400, k)
                    /\ curveAmount' = effectParams'.amount
              /\ (currentEffectType = "delay" /\ knobIndex = 1) =>
                    /\ LinearHundredths(effectParams'.time, TimeUnit, 1, 100, k)
                    /\ delayTime' = effectParams'.time
              /\ (currentEffectType = "delay" /\ knobIndex = 2) =>
                    /\ LinearHundredths(effectParams'.feedback, FeedbackUnit, 0, 90, k)
                    /\ feedbackGain' = effectParams'.feedback
              /\ (currentEffectType = "bitcrush" /\ knobIndex = 1) =>
                    /\ (effectParams'.bits - 1) * KnobUnit <= 15 * k
                    /\ 15 * k < effectParams'.bits * KnobUnit
              /\ (currentEffectType = "bitcrush" /\ knobIndex = 2) =>
                    LinearHundredths(effectParams'.normFreq, TimeUnit, 1, 100, k) ]_vars

\* both bitcrush knobs were turned fully up
C12_Witness ==
  /\ currentEffectType = "bitcrush"
  /\ effectParams.bits = 16
  /\ effectParams.normFreq = TimeUnit

\* C17: cancelling a preview (closeEffectPanel) performs no render and leaves
\* the committed buffer unchanged: the cancel starts no invocation, creates
\* no buffer and writes neither originalBuffer nor the loaded audio.
C17_CancelKeepsBuffer ==
  [][ CancelRuns => UNCHANGED <<bufVars, tasks, nextBuf>> ]_vars

\* a preview was activated and cancelled: only the file's buffer exists
C17_Witness ==
  /\ Idle
  /\ nextNode > 0
  /\ nextBuf = 1
  /\ originalBuffer = 1
  /\ tasks = EmptyBag

\* C18: when a preview is deactivated (cancel or freeze) its parameters are
\* discarded with its node references: after closeEffectPanel effectParams
\* holds no parameter value of the ended effect.
C18_ParamsDiscarded ==
  [][ (CancelRuns \/ \E tk \in PendingTasks : FreezeDelivers(tk))
      => effectParams' = NoParams ]_vars

\* ------------------------------------------------------------------------
\* The samples of a freeze and of an export
\* ------------------------------------------------------------------------
\* frame i (counted from 1) lies in [floor(start * sampleRate), floor(end * sampleRate))
InRegion(i) == Frame(dsp.start) < i /\ i <= Frame(dsp.end)

SameShape(a, b) ==
  /\ Len(a) = Len(b)
  /\ \A c \in 1..Len(a) : Len(a[c]) = Len(b[c])

\* the render of the active effect over the active region of the buffer
\* that was committed when the freeze began
RenderOfBefore ==
  renderOfflineEffect(dsp.before, dsp.start, dsp.end, dsp.effectType,
                      dsp.effectParams).buffer

\* C13: when a freeze has succeeded (its reload has completed), the committed
\* buffer is the offline render of the active effect over the active region,
\* with the samples of the region's frames multiplied by the preview volume
\* and no other sample multiplied.
C13_FrozenIsRenderTimesVolume ==
  dsp.pc = "reloaded" =>
    /\ SameShape(dsp.originalBuffer, RenderOfBefore)
    /\ \A c \in 1..Len(dsp.originalBuffer) : \A i \in 1..Len(dsp.originalBuffer[c]) :
         dsp.originalBuffer[c][i] =
           IF InRegion(i)
           THEN ScaleSample(RenderOfBefore[c][i], dsp.effectParams.volume)
           ELSE RenderOfBefore[c][i]

\* C14: after a successful freeze whose reload has completed, every sample
\* of the committed buffer outside the region equals the sample the
\* committed buffer had there before the freeze.
C14_OutsideRegionExact ==
  dsp.pc = "reloaded" =>
    /\ SameShape(dsp.originalBuffer, dsp.before)
    /\ \A c \in 1..Len(dsp.originalBuffer) : \A i \in 1..Len(dsp.originalBuffer[c]) :
         ~InRegion(i) => dsp.originalBuffer[c][i] = dsp.before[c][i]

\* C15: what renderOfflineEffect returns for a region inside the buffer
\* equals the source at every frame outside
\* [floor(start * sampleRate), floor(end * sampleRate)), for each of the
\* three effects.
C15_RenderIsLocal ==
  dsp.pc = "rendered" =>
    /\ SameShape(dsp.processed, dsp.before)
    /\ \A c \in 1..Len(dsp.processed) : \A i \in 1..Len(dsp.processed[c]) :
         ~InRegion(i) => dsp.processed[c][i] = dsp.before[c][i]

\* a render that changed a sample of the region, with frames on both sides of it
C15_Witness ==
  /\ dsp.pc = "rendered"
  /\ ~InRegion(1) /\ ~InRegion(MaxFrames)
  /\ \E c \in 1..Len(dsp.processed) : \E i \in 1..Len(dsp.processed[c]) :
       InRegion(i) /\ dsp.processed[c][i] # dsp.before[c][i]

\* C16: for every effect and every region with start < end, whether or not
\* its end lies within the buffer, renderOfflineEffect completes without
\* raising, returns a buffer of the source's length and channel count, and
\* leaves the source's samples alone.
C16_RenderCompletes ==
  /\ dsp.pc # "failed"
  /\ dsp.pc = "rendered" => /\ SameShape(dsp.processed, dsp.before)
                            /\ dsp.originalBuffer = dsp.before

\* the greatest magnitude of the normalized samples, over all channels
NormalizedPeak ==
  LET all == {Abs(dsp.normalized[c][i]) :
                c \in 1..Len(dsp.normalized), i \in 1..Len(dsp.normalized[1])}
  IN CHOOSE m \in all : \A x \in all : x <= m

\* a / u = b / v for a, b >= 0 and u, v > 0, by the continued fractions of
\* the two sides, so that no product is formed
RECURSIVE SameRatio(_, _, _, _)
SameRatio(a, u, b, v) ==
  IF a \div u # b \div v THEN FALSE
  ELSE IF a % u = 0 \/ b % v = 0 THEN a % u = 0 /\ b % v = 0
  ELSE SameRatio(u, a % u, v, b % v)

\* C20: after the normalization of getProcessedWavBlob the greatest magnitude
\* over all channels is 0.98 when the rendered peak was not zero, every
\* sample being the rendered one times 0.98 / peak; all samples are zero when
\* the rendered peak was zero; the normalized peak is never above 0.98.
C20_NormalizedPeak ==
  dsp.pc = "exported" =>
    LET renderedBuffer == RenderChain(dsp.originalBuffer, dsp.master)
        mags == {Abs(renderedBuffer[c][i]) :
                   c \in 1..Len(renderedBuffer), i \in 1..Len(renderedBuffer[1])}
        peak == CHOOSE m \in mags : \A x \in mags : x <= m
    IN /\ SameShape(dsp.normalized, renderedBuffer)
       /\ 50 * NormalizedPeak <= 49 * dsp.unit
       /\ IF peak # 0
          THEN /\ 50 * NormalizedPeak = 49 * dsp.unit
               /\ \A c \in 1..Len(renderedBuffer) : \A i \in 1..Len(renderedBuffer[c]) :
                    /\ (dsp.normalized[c][i] < 0) = (renderedBuffer[c][i] < 0)
                    /\ SameRatio(Abs(dsp.normalized[c][i]), dsp.unit,
                                 49 * Abs(renderedBuffer[c][i]), 50 * peak)
          ELSE NormalizedPeak = 0

\* a stereo export whose second channel holds the peak, which is not full scale
C20_Witness ==
  /\ dsp.pc = "exported"
  /\ Len(dsp.normalized) = 2
  /\ dsp.maxPeak > 0 /\ dsp.maxPeak # SampleUnit
  /\ \A i \in 1..Len(dsp.normalized[1]) : 50 * Abs(dsp.normalized[1][i]) < 49 * dsp.unit

\* an export of silence
C20_WitnessSilence ==
  dsp.pc = "exported" /\ dsp.maxPeak = 0 /\ dsp.master = 0


\* the player with another preview in place of the active one
WithPreview(p, ep) == [This EXCEPT !.preview = p, !.effectParams = ep]

\* the player without a preview, and with a preview of each type on each
\* region whose volume was turned
OtherPlayers ==
  {WithPreview(IdlePreview, NoParams)} \cup
  {WithPreview([NewPreview(r, type, nextNode) EXCEPT !.previewGain = v],
               [NewParams(NoParams, type) EXCEPT !.volume = v]) :
     r \in RegionIds, type \in EffectTypes, v \in KnobValues}

RegionFrames == Frame(dsp.end) - Frame(dsp.start)

\* C21: no operation writes the samples of a buffer that is or was the
\* committed buffer: after any of freeze, reverse, trim and export the
\* buffer that was committed before holds the samples it held, and when the
\* gain step of a freeze has changed a sample, the buffer it wrote to was
\* not the committed one.
C21_CommittedNeverWritten ==
  /\ dsp.sourceNow = dsp.before
  /\ (dsp.pc = "committed" /\ dsp.ops = <<>> /\ dsp.newBuffer # dsp.processed)
       => ~dsp.same

\* a freeze whose render returned the committed buffer itself and whose
\* gain step then ran on it with a volume other than 1
C21_Witness ==
  /\ dsp.pc = "committed" /\ dsp.ops = <<>>
  /\ dsp.same
  /\ dsp.effectParams.volume \notin {Undefined, 100}
  /\ \E c \in 1..Len(dsp.before) : \E i \in 1..Len(dsp.before[c]) : dsp.before[c][i] # 0


\* C22: an operation on a range of zero or fewer frames does nothing and
\* raises nothing: renderOfflineEffect returns the source buffer itself,
\* unchanged; sliceBuffer returns null; trimAudio returns with the committed
\* buffer, the regions and the trim UI as they were.
C22_DegenerateRangeIsNoOp ==
  /\ (dsp.ops = <<>> /\ RegionFrames <= 0) =>
        /\ dsp.pc # "failed"
        /\ dsp.pc = "rendered" => dsp.same /\ dsp.processed = dsp.before
  /\ (dsp.pc = "sliced"
        /\ RatioFrame(dsp.endRatio, Len(dsp.before[1]))
              <= RatioFrame(dsp.startRatio, Len(dsp.before[1]))) =>
        dsp.sliced.null
  /\ (dsp.ops = <<"trim">>
        /\ RatioFrame(dsp.rightHandle, Len(dsp.before[1]))
              <= RatioFrame(dsp.leftHandle, Len(dsp.before[1]))) =>
        /\ dsp.pc = "returned"
        /\ dsp.originalBuffer = dsp.before
        /\ ~dsp.regionsCleared
        /\ dsp.trimUI = 1

\* trimAudio has returned for handles that are apart but fall on one frame
C22_Witness ==
  /\ dsp.pc = "returned"
  /\ dsp.leftHandle < dsp.rightHandle
  /\ RatioFrame(dsp.rightHandle, Len(dsp.before[1]))
        = RatioFrame(dsp.leftHandle, Len(dsp.before[1]))

\* a render over a region of no frames has returned
C22_WitnessRender ==
  dsp.pc = "rendered" /\ dsp.ops = <<>> /\ RegionFrames = 0


\* C23: for ratios 0 <= a < b <= 1 and a buffer of N frames, sliceBuffer
\* returns null when floor(b N) - floor(a N) <= 0 and otherwise a buffer of
\* that many frames and of the source's channel count, whose frame i is the
\* source's frame floor(a N) + i on every channel; the source keeps its
\* samples, and the slice (0, 1) has exactly the source's samples.
C23_SliceIsExact ==
  (dsp.pc = "sliced" /\ dsp.startRatio < dsp.endRatio) =>
    LET N == Len(dsp.before[1])
        first == (dsp.startRatio * N) \div RatioUnit
        count == (dsp.endRatio * N) \div RatioUnit - first
    IN /\ dsp.sliced.null = (count <= 0)
       /\ ~dsp.sliced.null =>
            /\ Len(dsp.sliced.buffer) = Len(dsp.before)
            /\ \A c \in 1..Len(dsp.before) :
                 /\ Len(dsp.sliced.buffer[c]) = count
                 /\ \A i \in 1..count :
                      dsp.sliced.buffer[c][i] = dsp.before[c][first + i]
       /\ (dsp.startRatio = 0 /\ dsp.endRatio = RatioUnit) =>
            dsp.sliced.buffer = dsp.before
       /\ dsp.originalBuffer = dsp.before /\ dsp.sourceNow = dsp.before

\* a slice from inside the buffer to its end, of a stereo source
C23_Witness ==
  /\ dsp.pc = "sliced"
  /\ 0 < dsp.startRatio /\ dsp.endRatio = RatioUnit
  /\ ~dsp.sliced.null
  /\ Len(dsp.sliced.buffer) = 2
  /\ 0 < Len(dsp.sliced.buffer[1]) /\ Len(dsp.sliced.buffer[1]) < Len(dsp.before[1])


\* C24: reverseRange applied twice over the same range gives back exactly
\* the samples of the buffer it started from, on every channel; applied
\* once, it leaves the samples outside the frame range as they were, and it
\* never changes its input.
C24_ReverseIsInvolution ==
  /\ (dsp.pc = "committed" /\ dsp.ops = <<"reverse", "reverse">>) =>
        dsp.originalBuffer = dsp.before
  /\ (dsp.pc = "committed" /\ dsp.ops = <<"reverse">>) =>
        /\ SameShape(dsp.originalBuffer, dsp.before)
        /\ \A c \in 1..Len(dsp.before) : \A i \in 1..Len(dsp.before[c]) :
             ~InRegion(i) => dsp.originalBuffer[c][i] = dsp.before[c][i]
  /\ (dsp.ops # <<>> /\ dsp.ops[1] = "reverse") => dsp.sourceNow = dsp.before

\* two reversals of a range of three or more frames, the first of which
\* changed the buffer
C24_Witness ==
  /\ dsp.pc = "committed" /\ dsp.ops = <<"reverse", "reverse">>
  /\ RegionFrames >= 3
  /\ reverseRange(dsp.before, dsp.start, dsp.end) # dsp.before


\* the distance between two levels of the grid {k / 2^bits}, in samples'
\* units; every sample is on the grid of 16 bits
GridStep(bits) == IF bits >= 15 THEN 1 ELSE SampleUnit \div (2 ^ bits)

\* C25: for bits b and normFreq in (0, 1], every output sample of
\* applyMathBitcrush is on the grid {k / 2^b}, and frame j of the clip
\* (counted from 0) holds round(x 2^b) / 2^b for the input sample x at the
\* last multiple of floor(1 / normFreq) at or before j: the output is
\* constant on runs of floor(1 / normFreq) frames, the last one possibly
\* shorter.
C25_BitcrushGridAndRuns ==
  (dsp.pc = "rendered" /\ dsp.ops = <<>> /\ dsp.effectType = "bitcrush" /\ ~dsp.same) =>
    LET q == GridStep(dsp.effectParams.bits)
        run == TimeUnit \div dsp.effectParams.normFreq
        first == Frame(dsp.start)
    IN \A c \in 1..Len(dsp.processed) : \A j \in 0..(RegionFrames - 1) :
         LET out == dsp.processed[c][first + j + 1]
             x == dsp.before[c][first + (j - (j % run)) + 1]
         IN /\ out % q = 0
            /\ 2 * out - q <= 2 * x /\ 2 * x < 2 * out + q
            /\ (j % run # 0) => out = dsp.processed[c][first + j]

\* a bitcrush over four frames in runs of three, whose second run begins
\* on another level
C25_Witness ==
  /\ dsp.pc = "rendered" /\ dsp.ops = <<>> /\ dsp.effectType = "bitcrush"
  /\ TimeUnit \div dsp.effectParams.normFreq = 3
  /\ RegionFrames = 4
  /\ \E c \in 1..Len(dsp.processed) :
       /\ dsp.processed[c][Frame(dsp.start) + 4] # dsp.processed[c][Frame(dsp.start) + 3]
       /\ dsp.processed[c][Frame(dsp.start) + 2] # dsp.before[c][Frame(dsp.start) + 2]


\* C26: for the same input samples, bits and normFreq, the live bitcrush of
\* the preview puts out the sample sequence that applyMathBitcrush computes.
C26_LiveEqualsOffline ==
  dsp.pc = "previewed" =>
    dsp.heard = applyMathBitcrush(
                  ExtractClip(MixDown(dsp.before), Frame(dsp.start), Frame(dsp.end)),
                  dsp.effectParams.bits, dsp.effectParams.normFreq)


\* C27: the blob of bufferToWave has 44 + 2 frames channels bytes; its
\* header declares the RIFF size 36 + dataBytes, format 1 (PCM), the channel
\* count, the sample rate, the byte rate sampleRate 2 channels, the block
\* align 2 channels, 16 bits per sample and the data size dataBytes; every
\* sample is first limited to [-1, 1] and then scaled by 0x8000 if negative
\* and by 0x7FFF otherwise, so that every encoded value is in
\* [-32768, 32767].
C27_WaveLayout ==
  (dsp.pc = "reloaded" /\ dsp.ops = <<>>) =>
    LET abuffer == dsp.newBuffer
        channels == Len(abuffer)
        frames == Len(abuffer[1])
        dataBytes == 2 * frames * channels
    IN /\ dsp.wav.size = 44 + dataBytes
       /\ dsp.wav.riffSize = 36 + dataBytes
       /\ dsp.wav.format = 1
       /\ dsp.wav.numOfChan = channels
       /\ dsp.wav.sampleRate = FrameRate
       /\ dsp.wav.byteRate = FrameRate * 2 * channels
       /\ dsp.wav.blockAlign = 2 * channels
       /\ dsp.wav.bitsPerSample = 16
       /\ dsp.wav.dataSize = dataBytes
       /\ Len(dsp.wav.data) = frames * channels
       /\ \A c \in 1..channels : \A i \in 1..frames :
            LET v == dsp.wav.data[(i - 1) * channels + c]
                sample == IF abuffer[c][i] > SampleUnit THEN SampleUnit
                          ELSE IF abuffer[c][i] < -SampleUnit THEN -SampleUnit
                          ELSE abuffer[c][i]
            IN /\ -32768 <= v /\ v <= 32767
               /\ IF sample < 0
                  THEN /\ v <= 0
                       /\ (-v) * SampleUnit <= (-sample) * 32768
                       /\ (-sample) * 32768 < (1 - v) * SampleUnit
                  ELSE /\ v >= 0
                       /\ v * SampleUnit <= sample * 32767
                       /\ sample * 32767 < (v + 1) * SampleUnit

\* the file of a stereo buffer with a sample above full scale, one at
\* negative full scale and one strictly between
C27_Witness ==
  /\ dsp.pc = "reloaded" /\ dsp.ops = <<>>
  /\ Len(dsp.newBuffer) = 2
  /\ \E c \in 1..2 : \E i \in 1..Len(dsp.newBuffer[c]) : dsp.newBuffer[c][i] > SampleUnit
  /\ \E c \in 1..2 : \E i \in 1..Len(dsp.newBuffer[c]) : dsp.newBuffer[c][i] = -SampleUnit
  /\ \E c \in 1..2 : \E i \in 1..Len(dsp.newBuffer[c]) :
       0 < dsp.newBuffer[c][i] /\ dsp.newBuffer[c][i] < SampleUnit

\* ------------------------------------------------------------------------
\* The equalizer and the master gain
\* ------------------------------------------------------------------------
InEdges(E, a) == {e[1] : e \in {x \in E : x[2] = a}}

\* C28: once the chain has been initialized, this.filters holds the ten
\* filter nodes the first initialization made, with the frequencies 32, 64,
\* 125, 250, 500, 1000, 2000, 4000, 8000, 16000 in this order, the first a
\* lowshelf, the last a highshelf, the others peaking; each one feeds the
\* next and nothing else, the last one feeds the master gain node, and the
\* master gain node is the one the first initialization made: no rebuild,
\* activation, freeze, cancel or reload makes another.
C28_FilterBankFixed ==
  (eqInitialized \/ Len(filters) # 0 \/ masterGainNode # NULL) =>
    /\ masterGainNode = MasterNode
    /\ Len(filters) = 10
    /\ \A i \in 1..10 :
         /\ filters[i].node = FilterNode(i)
         /\ filters[i].frequency =
              <<32, 64, 125, 250, 500, 1000, 2000, 4000, 8000, 16000>>[i]
         /\ filters[i].type = IF i = 1 THEN "lowshelf"
                              ELSE IF i = 10 THEN "highshelf" ELSE "peaking"
    /\ \A i \in 1..9 : /\ OutEdges(edges, FilterNode(i)) = {FilterNode(i + 1)}
                        /\ InEdges(edges, FilterNode(i + 1)) = {FilterNode(i)}
    /\ OutEdges(edges, FilterNode(10)) = {MasterNode}

\* a preview has been activated and cancelled and a reload has completed
C28_Witness ==
  /\ eqInitialized
  /\ nextNode > 0 /\ currentEffectType = NoType
  /\ nextBuf >= 3 /\ tasks = EmptyBag /\ rafPending = 0

GainsOf(fs) == [i \in 1..Len(fs) |-> fs[i].gain]

\* C29: once the master gain node exists its gain changes only in a step of
\* the master fader or of the volume knob, and once the filters exist their
\* gains change only in a step of a slider input, a slider reset or the EQ
\* draw gesture: no reload (after a trim, a freeze or a reverse), rebuild,
\* activation or cancel changes any of them.
C29_GainsChangeOnlyByInput ==
  [][/\ (masterGainNode # NULL /\ masterGain' # masterGain) =>
          \/ \E v \in FaderValues : MasterFader(v)
          \/ \E v \in KnobValues : VolKnob(v)
     /\ (Len(filters) # 0 /\ GainsOf(filters') # GainsOf(filters)) =>
          \/ \E i \in DrawBands, v \in DrawValues : EqDraw(i, v)
          \/ \E i \in SliderBands, v \in SliderValues : SliderInput(i, v)
          \/ \E i \in SliderBands : SliderReset(i)]_vars

\* the reload of a trim is under way with the master gain and an EQ gain
\* away from their first values
C29_Witness ==
  /\ \E tk \in PendingTasks : tk.kind = "trim" /\ originalBuffer = tk.buf
  /\ masterGain \notin {Undefined, MasterDefault}
  /\ Len(filters) # 0 /\ filters[1].gain # 0

\* C30: a step of the volume knob to the value v, while a preview is active
\* (currentEffectType set), makes v the preview gain and
\* effectParams.volume and leaves the master gain as it was; while no
\* preview is active it makes v the master gain and leaves effectParams as
\* it was.  The master gain is 0.8 when its node is made and is within
\* [0, 1.5] ever after.
C30_VolumeKnobDualPurpose ==
  [][/\ \A delta \in KnobDrags :
          LET v == DragValue(StartVol, delta)
          IN VolKnob(v) =>
               IF currentEffectType # NoType
               THEN /\ previewGain' = v
                    /\ effectParams'.volume = v
                    /\ masterGain' = masterGain
               ELSE /\ masterGain' = v
                    /\ effectParams' = effectParams
     /\ (masterGainNode = NULL /\ masterGainNode' # NULL) => masterGain' = 80
     /\ masterGainNode' # NULL => (0 <= masterGain' /\ masterGain' <= 150)]_vars

\* the knob has been turned up to its end without a preview and down to its
\* end with one
C30_Witness ==
  /\ currentEffectType # NoType
  /\ previewGain = 0 /\ effectParams.volume = 0
  /\ masterGain = 100

\* C31: a step of applyDirectEffect reverses the committed buffer and
\* commits the result, and neither that step nor the completion of its
\* reload changes currentEffectType, activeRegion, effectParams or any
\* of the references to the effect nodes, whether or not a preview is
\* active.
C31_ReverseLeavesPreview ==
  [][/\ \A r \in RegionIds :
          applyDirectEffect(r, GainTasks) =>
            /\ UNCHANGED <<previewVars, effectParams>>
            /\ \E tk \in BagToSet(tasks') :
                 /\ tk.kind = "reverse" /\ tk.region = r
                 /\ tk.src = originalBuffer /\ tk.buf = originalBuffer'
     /\ \A tk \in PendingTasks :
          (tk.kind = "reverse" /\ LoadDone(tk)) =>
            UNCHANGED <<previewVars, effectParams>>]_vars

\* the reload of a reverse is under way while a preview is active
C31_Witness ==
  /\ currentEffectType # NoType /\ activeRegion # NoRegion
  /\ \E tk \in PendingTasks : tk.kind = "reverse" /\ originalBuffer = tk.buf

\* ------------------------------------------------------------------------
\* Freezes that overlap
\* ------------------------------------------------------------------------
\* C33: of two invocations of freezeCurrentEffect that were made for the
\* same region and effect on the same committed buffer, at most one commits
\* a rendered buffer: never are two of them at their reload, each with a
\* rendered buffer of its own committed.
C33_FreezeCommitsOnce ==
  \A t1, t2 \in PendingTasks :
    (/\ t1.kind = "freeze" /\ t2.kind = "freeze"
     /\ t1.pc = "load" /\ t2.pc = "load"
     /\ t1.region = t2.region /\ t1.type = t2.type /\ t1.src = t2.src)
    => t1.buf = t2.buf

\* C34: the completion of a freeze's render, while the active preview is on
\* another region than the one the freeze was requested for, leaves that
\* preview as it is.
C34_FreezeKeepsOtherPreview ==
  [][\A tk \in PendingTasks :
       (FreezeRenderDone(tk) /\ activeRegion # NoRegion /\ activeRegion # tk.region)
       => UNCHANGED previewVars]_vars

\* C35: the buffer a freeze commits is the one that the values of
\* effectParams at the invocation of freezeCurrentEffect give: the region
\* rendered with those parameters and scaled by that volume, whatever the
\* knobs did while the render was pending.
C35_BakesInvocationValues ==
  (dsp.pc = "committed" /\ dsp.invoked # NoParams) =>
    dsp.newBuffer =
      ApplyVolume(renderOfflineEffect(dsp.before, dsp.start, dsp.end,
                                      dsp.effectType, dsp.invoked).buffer,
                  dsp.start, dsp.end, dsp.invoked.volume)

\* ------------------------------------------------------------------------
\* Coherence of the preview state
\* ------------------------------------------------------------------------
\* C36: between handlers, a region is active exactly when an effect type
\* is set and exactly when the preview gain node exists; previewEffectNode
\* exists exactly for distortion and bitcrush; delayNode and feedbackNode
\* exist together, exactly for delay.
C36_PreviewCoherent ==
  /\ (activeRegion # NoRegion) <=> (currentEffectType # NoType)
  /\ (currentEffectType # NoType) <=> (previewGainNode # NULL)
  /\ (previewEffectNode # NULL) <=> (currentEffectType \in {"distortion", "bitcrush"})
  /\ (delayNode # NULL) <=> (feedbackNode # NULL)
  /\ (delayNode # NULL) <=> (currentEffectType = "delay")

C36_Witness ==
  /\ currentEffectType = "delay" /\ delayNode # NULL /\ feedbackNode # NULL
  /\ previewEffectNode = NULL /\ previewGainNode # NULL
  /\ \E tk \in PendingTasks : tk.kind = "freeze"

\* C37: a step that removes the region of the active preview (the delete
\* button, the x2 or 1/2 button, a trim) leaves the preview state idle and
\* the chain initialized with exactly the prescribed edges; a step that
\* removes only other regions leaves the preview state as it is.
C37_RemovalCancelsPreview ==
  [][LET Cancelled == /\ activeRegion' = NoRegion /\ currentEffectType' = NoType
                      /\ previewGainNode' = NULL /\ previewEffectNode' = NULL
                      /\ delayNode' = NULL /\ feedbackNode' = NULL
                      /\ eqInitialized' /\ edges' = PrescribedEdges'
     IN /\ \A r \in RaceRegions :
             RegionRemoved(r) =>
               IF activeRegion = r THEN Cancelled ELSE UNCHANGED previewVars
        /\ \A r \in RaceRegions :
             ResizeLoop(r) =>
               IF activeRegion \in regions THEN Cancelled ELSE UNCHANGED previewVars
        /\ \A tk \in PendingTasks :
             TrimLoadDone(tk) =>
               IF activeRegion # NoRegion THEN Cancelled ELSE UNCHANGED previewVars]_vars

\* ------------------------------------------------------------------------
\* The bank service
\* ------------------------------------------------------------------------
\* C32: when the remote operation of createBank, addSample, deleteSample
\* or deleteBank rejects, the step that ends the call leaves the local
\* cache equal to the cache at the moment the method was entered.
C32_FailureRestoresCache ==
  [][\A tk \in calls :
       (createBankFail(tk) \/ addSampleFail(tk) \/ deleteSampleFail(tk)
          \/ deleteBankFail(tk))
       => localCache' = tk.before]_vars

C32_Witness ==
  /\ \E tk \in calls : tk.op = "createBank" /\ localCache # tk.before
  /\ \E b \in BankNames : cloud.docs[b] = Absent

\* C38: the step that completes deleteSample leaves in the cache list of
\* the bank exactly the records other than the given one, which is also
\* the list of the bank's document.
C38_DeleteRemovesOneRecord ==
  [][\A tk \in calls, gone \in BOOLEAN :
       (deleteSampleDone(tk, gone) /\ localCache[tk.bank].present)
       => /\ localCache'[tk.bank].samples = arrayRemove(localCache[tk.bank].samples, tk.sample)
          /\ localCache'[tk.bank].samples = cloud'.docs[tk.bank].samples]_vars

\* ------------------------------------------------------------------------
\* Dialogs
\* ------------------------------------------------------------------------
\* C39: every promise Modal.show has returned is eventually resolved,
\* given that the user dismisses every dialog that stays open.
C39_EveryShowResolved ==
  \A i \in 1..MaxShows :
    (Len(promises) >= i /\ promises[i].state = "pending")
      ~> (Len(promises) >= i /\ promises[i].state = "resolved")

\* C40: whenever the save button is disabled, it is eventually enabled
\* again with its icon restored.
C40_SaveButtonRestored ==
  (saveBtn.pointerEvents = "none")
    ~> (saveBtn.pointerEvents = "auto" /\ saveBtn.innerHTML = "save")

====
